---- MODULE Spec2Model ----
(***************************************************************************)
(* QEM Zoo: the client-side pipeline of the catalog pages.                 *)
(*                                                                         *)
(* Listing pages (js/techniques-page.js, the catalog handler of            *)
(* js/application.js): fetch, sort by name, citation index, grouping by    *)
(* first letter, card rendering, then the search/category filter.          *)
(* Detail pages (js/technique.js, technique.js, js/application.js): the    *)
(* resolution of the (id, type) query parameters to a record, and the      *)
(* sections rendered for it.                                               *)
(* Cross-references: the entries rendered for a list of technique ids.     *)
(* Page loads by steps (all handlers, visualize.js and the chart pages     *)
(* included): requests issued, responses, continuation after each await.   *)
(* Citations: the number a diagram caption cites against the references   *)
(* list of the page.  Graph view (graph.js): nodes, links, and the drag    *)
(* and click listeners.  Playground (playground.js): technique cards, the  *)
(* request body and the run listener by steps.                             *)
(*                                                                         *)
(* Strings are sequences of UTF-16 code units, as in the program, so that  *)
(* toLowerCase, toUpperCase, trim, includes, the default Array sort and    *)
(* localeCompare are each modelled by what they compute.                   *)
(***************************************************************************)
EXTENDS Integers, Sequences, FiniteSets, TLC

VARIABLES
    page,            \* which page's script runs
    fetched,         \* the data files the server holds for this page load
    phase,           \* "loading" | "rendered" | "failed" | "redirected" | "done";
                     \* by steps: "start" | "awaiting" | "done"
    allTechniques,   \* the sorted item array of a listing page
    citationOrder,   \* distinct reference keys, first appearance
    citationMap,     \* own properties of the citationMap object
    grouped,         \* own properties of the grouped object: letter -> items
    letters,         \* Object.keys(grouped).sort()
    main,            \* children of the listing container, in document order
    alphaNav,        \* the alphabet navigation links, in document order
    noResults,       \* style.display of the .no-results element
    visible,         \* the counter `visible` of the last applyFilters run
    activeCategory,  \* the filter's category
    searchValue,     \* searchInput.value
    filterRan,       \* applyFilters has run at least once
    refList,         \* the items of the references list, in document order
    activeBtn,       \* the categories of the buttons that carry "active"
    url,             \* detail page: the query parameters id and type
    content,         \* what the content area shows
    location,        \* detail page: the URL a redirect was issued to, or NoField
    requests,        \* page load by steps: the state of each request
    awaiting,        \* page load by steps: the awaited group of requests
    techniqueCounter, \* playground: the counter of the cards created
    techniqueList,   \* playground: the technique cards, in document order
    circuitSelect,   \* playground: the value of the circuit dropdown
    noiseLevel,      \* playground: the text of the noise-level field
    runBtn,          \* playground: the Run button, disabled flag and label
    errorMsg,        \* playground: which message the error line shows
    resultsPanel,    \* playground: display and content of the results panel
    runs,            \* playground: the run handlers that await /api/run
    graphNodes,      \* graph: the array `nodes`
    graphLinks,      \* graph: the array `links`
    dragged,         \* graph: the flag `dragged`
    gesture,         \* graph: the pointer gesture in progress
    displaced        \* graph: the ids of the nodes a drag has moved

vars == <<page, fetched, phase, allTechniques, citationOrder, citationMap,
          grouped, letters, main, alphaNav, noResults, visible, activeCategory,
          searchValue, filterRan, refList, activeBtn, url, content, location,
          requests, awaiting, techniqueCounter, techniqueList, circuitSelect,
          noiseLevel, runBtn, errorMsg, resultsPanel, runs, graphNodes,
          graphLinks, dragged, gesture, displaced>>

listingVars == <<allTechniques, citationOrder, citationMap, grouped, letters,
                 main, alphaNav, noResults, visible, activeCategory,
                 searchValue, filterRan, refList, activeBtn>>

detailVars == <<url, content, location>>

loadVars == <<requests, awaiting>>

playVars == <<techniqueCounter, techniqueList, circuitSelect, noiseLevel,
              runBtn, errorMsg, resultsPanel, runs>>

graphVars == <<graphNodes, graphLinks, dragged, gesture, displaced>>

-----------------------------------------------------------------------------
(* Bounds of the model.                                                    *)

\* Items in one fetched collection.
MaxItems == 2

\* Keys in the reference list of one record.
MaxRefs == 3

\* Techniques in the list the graph is built from.
MaxNodes == 3

\* Technique cards created in the playground.
MaxCards == 2

-----------------------------------------------------------------------------
(* JavaScript values and string built-ins.                                 *)

\* A property that a record does not have (reads as undefined).
NoField == "undefined"

\* Property names every plain object inherits from Object.prototype; the
\* `in` operator answers true for them on an empty object literal.
ObjectPrototypeKeys ==
    {"constructor", "toString", "valueOf", "hasOwnProperty",
     "isPrototypeOf", "propertyIsEnumerable", "toLocaleString", "__proto__"}

\* "\n" and " " as strings.
NL == <<10>>
SP == <<32>>

IsWhiteSpace(c) == c \in {9, 10, 11, 12, 13, 32, 160}

\* String.prototype.toLowerCase / toUpperCase on one code unit (ASCII and
\* the Latin-1 letter E-acute, the letters the model's data uses).
ToLowerCaseUnit(c) ==
    IF c \in 65..90 THEN c + 32
    ELSE IF c = 201 THEN 233
    ELSE c

ToUpperCaseUnit(c) ==
    IF c \in 97..122 THEN c - 32
    ELSE IF c = 233 THEN 201
    ELSE c

ToLowerCase(s) == [i \in 1..Len(s) |-> ToLowerCaseUnit(s[i])]

ToUpperCase(s) == [i \in 1..Len(s) |-> ToUpperCaseUnit(s[i])]

RECURSIVE TrimStart(_)
TrimStart(s) ==
    IF s # <<>> /\ IsWhiteSpace(Head(s)) THEN TrimStart(Tail(s)) ELSE s

RECURSIVE TrimEnd(_)
TrimEnd(s) ==
    IF s # <<>> /\ IsWhiteSpace(s[Len(s)])
    THEN TrimEnd(SubSeq(s, 1, Len(s) - 1))
    ELSE s

\* String.prototype.trim
Trim(s) == TrimEnd(TrimStart(s))

\* s.startsWith(q) from position 1
RECURSIVE StartsWith(_, _)
StartsWith(s, q) ==
    IF q = <<>> THEN TRUE
    ELSE IF s = <<>> THEN FALSE
    ELSE Head(s) = Head(q) /\ StartsWith(Tail(s), Tail(q))

\* String.prototype.includes: scan the start positions left to right.
RECURSIVE Includes(_, _)
Includes(s, q) ==
    IF StartsWith(s, q) THEN TRUE
    ELSE IF s = <<>> THEN FALSE
    ELSE Includes(Tail(s), q)

\* The default comparison of Array.prototype.sort(): strings by code unit.
RECURSIVE CodeUnitLess(_, _)
CodeUnitLess(a, b) ==
    IF b = <<>> THEN FALSE
    ELSE IF a = <<>> THEN TRUE
    ELSE IF Head(a) # Head(b) THEN Head(a) < Head(b)
    ELSE CodeUnitLess(Tail(a), Tail(b))

\* String.prototype.localeCompare under the root collation: three levels.
\* Primary: white space, punctuation, digits, then letters by base letter;
\* secondary: accents; tertiary: lower case before upper case.
PrimaryWeight(c) ==
    IF c \in 65..90 THEN 100 + (c - 65)
    ELSE IF c \in 97..122 THEN 100 + (c - 97)
    ELSE IF c \in {201, 233} THEN 100 + 4
    ELSE IF c \in 48..57 THEN 50 + (c - 48)
    ELSE IF IsWhiteSpace(c) THEN 1
    ELSE IF c = 95 THEN 2
    ELSE IF c = 45 THEN 3
    ELSE 4

SecondaryWeight(c) == IF c \in {201, 233} THEN 1 ELSE 0

TertiaryWeight(c) == IF c \in 65..90 \/ c = 201 THEN 1 ELSE 0

\* -1, 0 or 1: lexicographic comparison of two weight sequences.
RECURSIVE CompareWeights(_, _)
CompareWeights(a, b) ==
    IF a = <<>> /\ b = <<>> THEN 0
    ELSE IF a = <<>> THEN -1
    ELSE IF b = <<>> THEN 1
    ELSE IF Head(a) < Head(b) THEN -1
    ELSE IF Head(a) > Head(b) THEN 1
    ELSE CompareWeights(Tail(a), Tail(b))

LocaleCompare(a, b) ==
    LET p == CompareWeights([i \in 1..Len(a) |-> PrimaryWeight(a[i])],
                            [i \in 1..Len(b) |-> PrimaryWeight(b[i])])
        s == CompareWeights([i \in 1..Len(a) |-> SecondaryWeight(a[i])],
                            [i \in 1..Len(b) |-> SecondaryWeight(b[i])])
        t == CompareWeights([i \in 1..Len(a) |-> TertiaryWeight(a[i])],
                            [i \in 1..Len(b) |-> TertiaryWeight(b[i])])
    IN IF p # 0 THEN p ELSE IF s # 0 THEN s ELSE t

\* Array.prototype.sort((a, b) => a.name.localeCompare(b.name)): stable.
SortByNameOmitted(items) == items

RECURSIVE InsertByName(_, _)
InsertByName(sorted, x) ==
    IF sorted = <<>> THEN <<x>>
    ELSE IF LocaleCompare(x.name, Head(sorted).name) < 0
         THEN <<x>> \o sorted
         ELSE <<Head(sorted)>> \o InsertByName(Tail(sorted), x)

RECURSIVE SortByName(_)
SortByName(items) ==
    IF items = <<>> THEN <<>>
    ELSE InsertByName(SortByName(SubSeq(items, 1, Len(items) - 1)),
                      items[Len(items)])

-----------------------------------------------------------------------------
(* String constants of the pages, as code units.                           *)

S_all == <<97, 108, 108>>
S_scaling == <<115, 99, 97, 108, 105, 110, 103>>
S_extrapolation == <<101, 120, 116, 114, 97, 112, 111, 108, 97, 116, 105, 111, 110>>
S_mitigation == <<109, 105, 116, 105, 103, 97, 116, 105, 111, 110>>
S_suppression == <<115, 117, 112, 112, 114, 101, 115, 115, 105, 111, 110>>
S_NoiseScaling == <<78, 111, 105, 115, 101, 32, 83, 99, 97, 108, 105, 110, 103>>
S_Extrapolation == <<69, 120, 116, 114, 97, 112, 111, 108, 97, 116, 105, 111, 110>>
S_References == <<82, 101, 102, 101, 114, 101, 110, 99, 101, 115, 58>>
S_AlsoKnownAs == <<65, 108, 115, 111, 32, 107, 110, 111, 119, 110, 32, 97, 115, 58, 32>>
\* String(Object), what an inherited "constructor" property prints as.
S_ObjectFunction ==
    <<102, 117, 110, 99, 116, 105, 111, 110, 32, 79, 98, 106, 101, 99, 116,
      40, 41, 32, 123, 32, 91, 110, 97, 116, 105, 118, 101, 32, 99, 111,
      100, 101, 93, 32, 125>>

\* sep-joined concatenation of a sequence of strings (Array.prototype.join).
RECURSIVE Join(_, _)
Join(parts, sep) ==
    IF parts = <<>> THEN <<>>
    ELSE IF Len(parts) = 1 THEN parts[1]
    ELSE parts[1] \o sep \o Join(Tail(parts), sep)

\* Number to decimal string, as template interpolation prints it.
RECURSIVE Decimal(_)
Decimal(n) ==
    IF n < 10 THEN <<48 + n>> ELSE Decimal(n \div 10) \o <<48 + (n % 10)>>

-----------------------------------------------------------------------------
(* Listing pages: citation index, grouping, rendering.                     *)

\* `key in citationMap` on an object literal: own or inherited property.
KeyIn(key, map) == key \in DOMAIN map \/ key \in ObjectPrototypeKeys

\* One step of the inner loop of the citation index.
IndexKey(st, key) ==
    IF ~KeyIn(key, st.map)
    THEN [order |-> Append(st.order, key),
          map |-> st.map @@ (key :> Len(st.order) + 1)]
    ELSE st

RECURSIVE IndexKeys(_, _)
IndexKeys(st, keys) ==
    IF keys = <<>> THEN st ELSE IndexKeys(IndexKey(st, Head(keys)), Tail(keys))

\* `t.references || []` (techniques page) against `t.references` (catalog).
ReferencesOf(t) == IF t.references = NoField THEN <<>> ELSE t.references

\* The citation index over an item array: {order, map}.
RECURSIVE CitationIndex(_, _)
CitationIndex(st, items) ==
    IF items = <<>> THEN st
    ELSE CitationIndex(IndexKeys(st, ReferencesOf(Head(items))), Tail(items))

\* The key of an item's letter group: t.name[0].toUpperCase().
LetterOfNoUpper(t) == <<t.name[1]>>
LetterOf(t) == ToUpperCase(<<t.name[1]>>)

\* One step of the grouping loop.
AddToGroup(g, t) ==
    LET letter == LetterOf(t)
    IN IF letter \in DOMAIN g
       THEN [g EXCEPT ![letter] = Append(@, t)]
       ELSE g @@ (letter :> <<t>>)

RECURSIVE GroupByLetter(_, _)
GroupByLetter(g, items) ==
    IF items = <<>> THEN g
    ELSE GroupByLetter(AddToGroup(g, Head(items)), Tail(items))

\* Object.keys(grouped).sort(): ascending by code unit.
SortKeys(S) ==
    LET RECURSIVE Go(_)
        Go(R) == IF R = {} THEN <<>>
                 ELSE LET m == CHOOSE x \in R :
                                 \A y \in R \ {x} : CodeUnitLess(x, y)
                      IN <<m>> \o Go(R \ {m})
    IN Go(S)

EmptyObject == [k \in {} |-> 0]

\* What `${citationMap[key]}` prints: the own number, or the inherited value.
CitationText(key, map) ==
    IF key \in DOMAIN map THEN Decimal(map[key]) ELSE S_ObjectFunction

\* refLinks: the text of the citation links of a card, joined by " ".
RefLinksText(t, map) ==
    LET refs == ReferencesOf(t)
    IN Join([i \in 1..Len(refs) |->
                <<91>> \o CitationText(refs[i], map) \o <<93>>], SP)

\* refLinks as elements: one link per reference key of the item, with the
\* key of its target `#ref-${key}` and the text between its brackets.
RefLinks(t, map) ==
    LET refs == ReferencesOf(t)
    IN [i \in 1..Len(refs) |->
           [href |-> refs[i], text |-> CitationText(refs[i], map)]]

\* categoryLabel of a card.
CategoryLabel(pg, category) ==
    IF pg = "techniques"
    THEN (IF category = S_scaling THEN S_NoiseScaling ELSE S_Extrapolation)
    ELSE <<ToUpperCaseUnit(category[1])>> \o Tail(category)

\* The "Also known as" line, or nothing.
AliasesText(pg, t) ==
    IF pg = "techniques" /\ t.aliases = NoField THEN <<>>
    ELSE IF Len(t.aliases) > 0
         THEN S_AlsoKnownAs \o Join(t.aliases, <<44, 32>>)
         ELSE <<>>

\* textContent of a card: the text nodes of the template in order; every
\* gap between two fields of the template holds a line break.
CardText(pg, t, map) ==
    LET links == RefLinksText(t, map)
        abbr == IF pg = "catalog" /\ t.abbreviation # NoField
                THEN <<32, 40>> \o t.abbreviation \o <<41>>
                ELSE <<>>
        refs == IF pg = "catalog" \/ links # <<>>
                THEN S_References \o SP \o links
                ELSE <<>>
    IN NL \o t.name \o abbr \o NL \o CategoryLabel(pg, t.category) \o NL
          \o AliasesText(pg, t) \o NL \o t.summary \o NL \o refs \o NL

S_letterPrefix == <<108, 101, 116, 116, 101, 114, 45>>

\* The id of a letter heading: `letter-${letter}`.
HeadingId(letter) == S_letterPrefix \o letter

HeadingNode(letter) ==
    [tag |-> "H2", className |-> "letter-heading", id |-> HeadingId(letter),
     letter |-> letter, category |-> NoField, text |-> letter,
     links |-> <<>>, display |-> ""]

CardNode(pg, t, letter, map) ==
    [tag |-> "DIV", className |-> "technique", id |-> t.id,
     letter |-> letter, category |-> t.category,
     text |-> CardText(pg, t, map), links |-> RefLinks(t, map),
     display |-> ""]

\* The catalog page reads t.aliases.length: a record without aliases throws.
CardThrows(pg, t) == pg = "catalog" /\ t.aliases = NoField

\* The nodes the render loop appends for the letters from position i on;
\* the loop stops at the first card whose template throws.
RECURSIVE RenderCards(_, _, _, _)
RenderCards(pg, items, letter, map) ==
    IF items = <<>> \/ CardThrows(pg, Head(items)) THEN <<>>
    ELSE <<CardNode(pg, Head(items), letter, map)>>
         \o RenderCards(pg, Tail(items), letter, map)

GroupThrows(pg, items) == \E i \in 1..Len(items) : CardThrows(pg, items[i])

RECURSIVE RenderLetters(_, _, _, _)
RenderLetters(pg, ls, g, map) ==
    IF ls = <<>> THEN <<>>
    ELSE <<HeadingNode(Head(ls))>>
         \o RenderCards(pg, g[Head(ls)], Head(ls), map)
         \o (IF GroupThrows(pg, g[Head(ls)]) THEN <<>>
             ELSE RenderLetters(pg, Tail(ls), g, map))

\* The keys that have a record in references.json.
ReferencesFile == {"a", "b"}

\* The references section: one list item per key of the citation order
\* that has a record, with id `ref-${key}` and its number as value.
RECURSIVE RenderReferences(_, _)
RenderReferences(order, map) ==
    IF order = <<>> THEN <<>>
    ELSE (IF Head(order) \in ReferencesFile
          THEN <<[key |-> Head(order), value |-> map[Head(order)]]>>
          ELSE <<>>)
         \o RenderReferences(Tail(order), map)

\* The alphabet navigation: one link per letter.
RenderNav(ls) == [i \in 1..Len(ls) |-> [letter |-> ls[i], disabled |-> FALSE]]

\* The combined item array before sorting.
Combined(pg, data) ==
    IF pg = "techniques"
    THEN [i \in 1..Len(data.primary) |->
             [data.primary[i] EXCEPT !.category = S_scaling]]
         \o [i \in 1..Len(data.secondary) |->
             [data.secondary[i] EXCEPT !.category = S_extrapolation]]
    ELSE data.primary

\* The handler throws before rendering anything: an item without a name's
\* first character, or (catalog) an item without a references array.
ThrowsBeforeRender(pg, items) ==
    \E i \in 1..Len(items) :
        \/ items[i].name = <<>>
        \/ pg = "catalog" /\ items[i].references = NoField

-----------------------------------------------------------------------------
(* The filter of a listing page.                                           *)

\* btn.dataset.category of the page's filter buttons. The techniques page
\* names its three buttons; the catalog's buttons come from its markup, here
\* the two categories of the catalog data.
Buttons(pg) ==
    IF pg = "techniques" THEN {S_all, S_scaling, S_extrapolation}
    ELSE {S_all, S_mitigation, S_suppression}

\* show, for one card.
ShowCard(card, cat, query) ==
    LET matchCategory == cat = S_all \/ card.category = cat
        matchSearch == query = <<>> \/ Includes(ToLowerCase(card.text), query)
    IN matchCategory /\ matchSearch

\* The query the filter uses.
QueryOfNoTrim(value) == ToLowerCase(value)
QueryOf(value) == Trim(ToLowerCase(value))

FilterCardsOnlyHiding(dom, cat, query) ==
    [i \in 1..Len(dom) |->
        IF dom[i].className = "technique"
        THEN [dom[i] EXCEPT !.display =
                 IF ShowCard(dom[i], cat, query) /\ dom[i].display # "none"
                 THEN "" ELSE "none"]
        ELSE dom[i]]
FilterCardsRemoving(dom, cat, query) ==
    SelectSeq(dom, LAMBDA n : n.className # "technique" \/ ShowCard(n, cat, query))
\* cards.forEach: each card's display.
FilterCards(dom, cat, query) ==
    [i \in 1..Len(dom) |->
        IF dom[i].className = "technique"
        THEN [dom[i] EXCEPT !.display =
                 IF ShowCard(dom[i], cat, query) THEN "" ELSE "none"]
        ELSE dom[i]]

\* The counter `visible` at the end of cards.forEach.
RECURSIVE CountVisible(_, _, _)
CountVisible(dom, cat, query) ==
    IF dom = <<>> THEN 0
    ELSE (IF Head(dom).className = "technique" /\ ShowCard(Head(dom), cat, query)
          THEN 1 ELSE 0) + CountVisible(Tail(dom), cat, query)

\* The sibling walk from position j: a visible card before the next heading.
RECURSIVE HasVisible(_, _)
HasVisible(dom, j) ==
    IF j > Len(dom) THEN FALSE
    ELSE IF dom[j].className = "letter-heading" \/ dom[j].tag = "H2" THEN FALSE
    ELSE \/ dom[j].className = "technique" /\ dom[j].display # "none"
         \/ HasVisible(dom, j + 1)

\* The heading loop: each heading's display.
FilterHeadingsAlwaysShown(dom) == dom
FilterHeadings(dom) ==
    [i \in 1..Len(dom) |->
        IF dom[i].className = "letter-heading"
        THEN [dom[i] EXCEPT !.display =
                 IF HasVisible(dom, i + 1) THEN "" ELSE "none"]
        ELSE dom[i]]

\* null, as an element reference.
NullElement == [tag |-> "null"]

\* document.getElementById: the first element with the id, or null.
GetElementById(dom, id) ==
    IF \E i \in 1..Len(dom) : dom[i].id = id
    THEN dom[CHOOSE i \in 1..Len(dom) :
                /\ dom[i].id = id
                /\ \A j \in 1..(i - 1) : dom[j].id # id]
    ELSE NullElement

\* The navigation loop: each link's disabled class.
FilterNav(nav, dom) ==
    [i \in 1..Len(nav) |->
        LET heading == GetElementById(dom, HeadingId(nav[i].letter))
        IN [nav[i] EXCEPT !.disabled =
               heading # NullElement /\ heading.display = "none"]]

\* The display of the no-results element.
NoResultsDisplayInverted(n) == IF n = 0 THEN "none" ELSE "block"
NoResultsDisplay(n) == IF n = 0 THEN "block" ELSE "none"

\* applyFilters(), reading searchInput.value and activeCategory.
ApplyFilters(value, cat) ==
    LET query == QueryOf(value)
        cards == FilterCards(main, cat, query)
        count == CountVisible(main, cat, query)
    IN /\ main' = FilterHeadings(cards)
       /\ alphaNav' = FilterNav(alphaNav, FilterHeadings(cards))
       /\ visible' = count
       /\ noResults' = NoResultsDisplay(count)
       /\ filterRan' = TRUE

-----------------------------------------------------------------------------
(* The data files.                                                         *)

\* Sequences over S of length at most n.
SeqsUpTo(S, n) == UNION {[1..k -> S] : k \in 0..n}

\* A record of a data file, with the fields the pages read. abbreviation,
\* aliases and references may be absent (NoField); the properties map is
\* present and empty in every record, so it adds no text to a card.
Record(id, name, abbreviation, aliases, category, summary, references) ==
    [id |-> id, name |-> name, abbreviation |-> abbreviation,
     aliases |-> aliases, category |-> category, summary |-> summary,
     references |-> references]

ZNEName ==
    <<90, 101, 114, 111, 45, 78, 111, 105, 115, 101, 32, 69, 120, 116, 114,
      97, 112, 111, 108, 97, 116, 105, 111, 110>>
PECName ==
    <<80, 114, 111, 98, 97, 98, 105, 108, 105, 115, 116, 105, 99, 32, 69,
      114, 114, 111, 114, 32, 67, 97, 110, 99, 101, 108, 108, 97, 116, 105,
      111, 110>>

\* Records for the filter: names and summaries over a, b, B and the space,
\* in two categories.
FilterPool ==
    {Record(<<116, 49>>, <<65, 98>>, NoField, <<>>, S_mitigation,
            <<98, 32, 97>>, <<"a", "b">>),
     Record(<<116, 50>>, <<97, 97>>, <<66>>, <<<<98, 98>>>>, S_mitigation,
            <<66>>, <<"b", "c">>),
     Record(<<116, 51>>, <<66, 97>>, NoField, <<>>, S_suppression,
            <<97>>, <<>>),
     Record(<<116, 52>>, <<98>>, NoField, <<>>, S_mitigation,
            <<97, 98>>, <<"a">>)}

\* Records for the index and the grouping: names that differ in case, in
\* accent and in the class of their first character; reference lists with
\* repeats, none, absent, and a key that Object.prototype also has.
IndexPool ==
    {Record(<<122, 110, 101>>, ZNEName, NoField, <<>>, S_mitigation, <<97>>, <<"a", "b">>),
     Record(<<112, 101, 99>>, PECName, NoField, <<>>, S_mitigation, <<97>>, <<"b", "c">>),
     Record(<<105, 51>>, <<97, 98>>, NoField, <<>>, S_mitigation, <<97>>,
            <<"c", "a", "c">>),
     Record(<<105, 52>>, <<65, 98>>, NoField, <<>>, S_suppression, <<97>>, <<>>),
     Record(<<105, 53>>, <<201, 97>>, NoField, <<>>, S_mitigation, <<97>>, <<"b">>),
     Record(<<105, 54>>, <<95, 97>>, NoField, NoField, S_mitigation, <<97>>, NoField),
     Record(<<105, 55>>, <<66>>, NoField, <<>>, S_mitigation, <<97>>,
            <<"constructor", "a">>),
     Record(<<105, 56>>, <<>>, NoField, <<>>, S_mitigation, <<97>>, <<"a">>),
     Record(<<105, 57>>, <<51, 98>>, NoField, <<>>, S_suppression, <<97>>, <<"d">>)}

\* What the server holds for a listing page: the techniques page reads two
\* collections (noise-scaling.json, extrapolation.json), the catalog one.
ListingData(pg, pool) ==
    IF pg = "techniques"
    THEN {[primary |-> p, secondary |-> q] :
            <<p, q>> \in {pq \in SeqsUpTo(pool, MaxItems) \X SeqsUpTo(pool, MaxItems) :
                            Len(pq[1]) + Len(pq[2]) <= MaxItems}}
    ELSE {[primary |-> p, secondary |-> <<>>] : p \in SeqsUpTo(pool, MaxItems)}

\* What the search field can hold after an input event: nothing, blanks
\* only, "a", "B", " b a ", "Ab", "zz" and "sc".
SearchValues ==
    {<<>>, <<32, 32>>, <<97>>, <<66>>, <<32, 98, 32, 97, 32>>, <<65, 98>>,
     <<122, 122>>, <<115, 99>>}

-----------------------------------------------------------------------------
(* Listing pages: the state machine.                                       *)

ListingIdle ==
    /\ allTechniques = <<>>
    /\ citationOrder = <<>>
    /\ citationMap = EmptyObject
    /\ grouped = EmptyObject
    /\ letters = <<>>
    /\ main = <<>>
    /\ alphaNav = <<>>
    /\ noResults = ""
    /\ visible = 0
    /\ activeCategory = S_all
    /\ searchValue = <<>>
    /\ filterRan = FALSE
    /\ refList = <<>>
    /\ activeBtn = {S_all}

DetailIdle ==
    /\ url = NoField
    /\ content = NoField
    /\ location = NoField

LoadIdle ==
    /\ requests = <<>>
    /\ awaiting = 0

\* No pointer gesture has run yet.
NoGesture == [node |-> 0, stage |-> "none", moved |-> FALSE]

PlayIdle ==
    /\ techniqueCounter = 0
    /\ techniqueList = <<>>
    /\ circuitSelect = NoField
    /\ noiseLevel = NoField
    /\ runBtn = NoField
    /\ errorMsg = NoField
    /\ resultsPanel = NoField
    /\ runs = <<>>

GraphIdle ==
    /\ graphNodes = <<>>
    /\ graphLinks = <<>>
    /\ dragged = FALSE
    /\ gesture = NoGesture
    /\ displaced = {}

InitListing(pool) ==
    /\ page \in {"techniques", "catalog"}
    /\ fetched \in ListingData(page, pool)
    /\ phase = "loading"
    /\ ListingIdle
    /\ DetailIdle
    /\ LoadIdle
    /\ PlayIdle
    /\ GraphIdle

\* The DOMContentLoaded handler of a listing page, from the fetches to the
\* registration of the listeners.
LoadListing ==
    /\ phase = "loading"
    /\ page \in {"techniques", "catalog"}
    /\ LET items == SortByName(Combined(page, fetched))
           index == CitationIndex([order |-> <<>>, map |-> EmptyObject], items)
           g == GroupByLetter(EmptyObject, items)
           ls == SortKeys(DOMAIN g)
           nodes == RenderLetters(page, ls, g, index.map)
       IN IF ThrowsBeforeRender(page, items)
          THEN /\ phase' = "failed"
               /\ UNCHANGED <<allTechniques, citationOrder, citationMap,
                              grouped, letters, main, alphaNav, refList>>
          ELSE /\ allTechniques' = items
               /\ citationOrder' = index.order
               /\ citationMap' = index.map
               /\ grouped' = g
               /\ letters' = ls
               /\ alphaNav' = RenderNav(ls)
               /\ main' = nodes
               /\ refList' = IF \E i \in 1..Len(items) : CardThrows(page, items[i])
                             THEN <<>>
                             ELSE RenderReferences(index.order, index.map)
               /\ phase' = IF \E i \in 1..Len(items) : CardThrows(page, items[i])
                           THEN "failed" ELSE "rendered"
    /\ UNCHANGED <<page, fetched, noResults, visible, activeCategory,
                   searchValue, filterRan, activeBtn>>
    /\ UNCHANGED detailVars
    /\ UNCHANGED playVars
    /\ UNCHANGED graphVars
    /\ UNCHANGED loadVars

\* An input event on the search field: the field holds v, applyFilters runs.
SearchInput ==
    /\ phase = "rendered"
    /\ \E v \in SearchValues :
        /\ searchValue' = v
        /\ ApplyFilters(v, activeCategory)
    /\ UNCHANGED <<page, fetched, phase, allTechniques, citationOrder,
                   citationMap, grouped, letters, activeCategory, refList,
                   activeBtn>>
    /\ UNCHANGED detailVars
    /\ UNCHANGED playVars
    /\ UNCHANGED graphVars
    /\ UNCHANGED loadVars

\* A click on a category button.
ClickFilter ==
    /\ phase = "rendered"
    /\ \E cat \in Buttons(page) :
        /\ activeBtn' = {cat}
        /\ activeCategory' = cat
        /\ ApplyFilters(searchValue, cat)
    /\ UNCHANGED <<page, fetched, phase, allTechniques, citationOrder,
                   citationMap, grouped, letters, searchValue, refList>>
    /\ UNCHANGED detailVars
    /\ UNCHANGED playVars
    /\ UNCHANGED graphVars
    /\ UNCHANGED loadVars

Init == InitListing(FilterPool)

Next == LoadListing \/ SearchInput \/ ClickFilter

Spec == Init /\ [][Next]_vars

\* The load alone, over the records of IndexPool.
InitIndex == InitListing(IndexPool)

NextIndex == LoadListing

SpecIndex == InitIndex /\ [][NextIndex]_vars

-----------------------------------------------------------------------------
(* Detail pages: resolution of the id and type query parameters.           *)

\* The fields of a record that only the detail pages read: the properties
\* object as its entries in insertion order, and the list of ids of other
\* records (related of a technique, mitigated_by of a noise type,
\* qem_techniques of an application). Either may be absent.
DetailFields(properties, related) ==
    [properties |-> properties, related |-> related]

\* Records of a detail page's listing: a hyphenated name with an empty
\* properties object and lists that resolve in part; an abbreviation with
\* an alias and lists of which nothing resolves; a record without the
\* optional fields; a two-word name whose lists resolve in full; a record
\* whose id "g+h" holds a character that a query string gives a meaning.
\* The reference key "a" is in references.json, "q" is not; the id "n" is
\* the id of no record.
DetailPool ==
    {Record(<<120>>, <<65, 45, 98>>, NoField, <<>>, S_mitigation, <<97>>,
            <<"a", "q">>)
        @@ DetailFields(<<>>, <<<<121>>, <<110>>>>),
     Record(<<121>>, <<67, 100>>, <<67>>, <<<<99, 32, 100>>>>, S_mitigation,
            <<97>>, <<"q">>)
        @@ DetailFields(<<<<"overhead", "low">>>>, <<<<110>>>>),
     Record(<<122>>, <<69>>, NoField, NoField, S_mitigation, <<97>>, <<>>)
        @@ DetailFields(NoField, NoField),
     Record(<<119>>, <<70, 32, 103>>, <<70, 71>>, <<>>, S_mitigation, <<97>>,
            <<"a">>)
        @@ DetailFields(<<<<"overhead", "high">>>>, <<<<121>>>>),
     Record(<<103, 43, 104>>, <<71, 32, 104>>, NoField, <<>>, S_mitigation,
            <<97>>, <<>>)
        @@ DetailFields(<<>>, <<>>)}

\* The detail document the server holds for an id: a description and a
\* diagram, an empty list of steps, an empty properties object; the other
\* sections are absent.
DetailDocument ==
    [description |-> <<"paragraph">>, diagrams |-> <<"figure">>,
     how_it_works |-> <<>>, properties |-> <<>>]

\* Values of the id parameter: none, "x", "y", "w", "a-b", "A-b", "a_b", "c",
\* "C-D", "c_d", "e", "f-g", "fg", "q", "g-h".
RequestIds ==
    {<<>>, <<120>>, <<121>>, <<119>>, <<97, 45, 98>>, <<65, 45, 98>>, <<97, 95, 98>>, <<99>>,
     <<67, 45, 68>>, <<99, 95, 100>>, <<101>>, <<102, 45, 103>>, <<102, 103>>,
     <<113>>, <<103, 45, 104>>}

\* Values of the type parameter on technique.html (NoField: not given).
RequestTypes ==
    {NoField, "noise-scaling", "noise", "extrapolation", "noise-learning"}

\* How a fetch of a data file ends: a parsed body, a non-success status, a
\* rejected request, or a body that r.json() cannot parse.
FetchStatuses == {"ok", "http-error", "network-error", "parse-error"}

KindOfIgnoringType(pg, type) ==
    IF pg = "application-detail" THEN "application" ELSE "technique"
\* The record kind that a page load resolves to.
KindOf(pg, type) ==
    IF pg = "application-detail" THEN "application"
    ELSE IF type \in {"noise-scaling", "noise", "extrapolation", "noise-learning"}
         THEN type
         ELSE "technique"

\* Per kind: the not-found text, the error text and the parent listing.
NotFoundMessage(kind) ==
    CASE kind = "technique" -> "Technique not found"
      [] kind = "noise" -> "Noise type not found"
      [] kind = "application" -> "Application not found"
      [] OTHER -> "Method not found"

ErrorMessage(kind) ==
    CASE kind = "technique" -> "Error loading technique"
      [] kind = "noise-scaling" -> "Error loading technique"
      [] kind = "noise" -> "Error loading noise type"
      [] kind = "extrapolation" -> "Error loading extrapolation method"
      [] kind = "noise-learning" -> "Error loading noise learning method"
      [] OTHER -> "Error loading application"

ParentListing(kind) ==
    CASE kind = "technique" -> "index.html"
      [] kind = "noise" -> "noise.html"
      [] kind = "application" -> "applications.html"
      [] OTHER -> "techniques.html"

\* What content.innerHTML is set to: a message paragraph, or the sections
\* of a record in document order.
NotFound(kind) ==
    [kind |-> "notFound", message |-> NotFoundMessage(kind),
     reason |-> NoField, link |-> ParentListing(kind), sections |-> <<>>]

Failed(kind, reason) ==
    [kind |-> "error", message |-> ErrorMessage(kind),
     reason |-> reason, link |-> ParentListing(kind), sections |-> <<>>]

Rendered(kind, sections) ==
    [kind |-> "rendered", message |-> kind, reason |-> NoField,
     link |-> NoField, sections |-> sections]

NoId(kind) ==
    [kind |-> "noId",
     message |-> IF kind = "application" THEN "No application specified"
                 ELSE "No technique specified",
     reason |-> NoField, link |-> ParentListing(kind), sections |-> <<>>]

DetailRequiredNever(kind) == FALSE
DetailRequiredAlways(kind) == TRUE
\* The detail document is fetched inside the Promise.all of the kind.
DetailRequired(kind) == kind \in {"technique", "noise-scaling", "noise", "application"}

\* The reason a failed fetch rejects with.
FetchReason(status) ==
    CASE status = "http-error" -> "Detail file not found"
      [] status = "parse-error" -> "Unexpected token"
      [] OTHER -> "Failed to fetch"

\* array.find((t) => t.id === id): the first match, or NoField.
FindById(records, id) ==
    IF \E i \in 1..Len(records) : records[i].id = id
    THEN records[CHOOSE i \in 1..Len(records) :
                    /\ records[i].id = id
                    /\ \A j \in 1..(i - 1) : records[j].id # id]
    ELSE NoField

HasId(records, id) == \E i \in 1..Len(records) : records[i].id = id

\* id.toLowerCase().replace(/[-_]/g, " ")
ReplacePunct(s) == [i \in 1..Len(s) |-> IF s[i] \in {45, 95} THEN 32 ELSE s[i]]

AliasQuery(id) == ReplacePunct(ToLowerCase(id))

\* The callback of the alias search on one record: "match", "no" or, when
\* t.aliases is read on a record that has none, "throws".
AliasMatch(t, query) ==
    IF t.abbreviation # NoField /\ t.abbreviation # <<>>
       /\ ToLowerCase(t.abbreviation) = query
    THEN "match"
    ELSE IF t.aliases = NoField THEN "throws"
    ELSE IF \E i \in 1..Len(t.aliases) : ToLowerCase(t.aliases[i]) = query
    THEN "match"
    ELSE IF ToLowerCase(t.name) = query THEN "match"
    ELSE "no"

\* techniques.find(callback): the first matching record, NoField when none
\* matches, or "throws" when the callback throws before a match.
RECURSIVE FindByAlias(_, _)
FindByAlias(records, query) ==
    IF records = <<>> THEN [result |-> "none", tech |-> NoField]
    ELSE LET m == AliasMatch(Head(records), query)
         IN IF m = "match" THEN [result |-> "found", tech |-> Head(records)]
            ELSE IF m = "throws" THEN [result |-> "throws", tech |-> NoField]
            ELSE FindByAlias(Tail(records), query)

\* obj.field: undefined when the object has no such property.
Get(obj, field) == IF field \in DOMAIN obj THEN obj[field] ELSE NoField

\* list && list.length
NonEmpty(list) == list # NoField /\ Len(list) > 0

\* A section of a detail page: its heading and what is under it.
Section(heading, items) == [heading |-> heading, items |-> items]

\* if (list && list.length) { heading; one element per entry }
ListSection(heading, list) ==
    IF NonEmpty(list) THEN <<Section(heading, list)>> ELSE <<>>

\* tech.abbreviation || tech.name
Label(t) ==
    IF t.abbreviation # NoField /\ t.abbreviation # <<>>
    THEN t.abbreviation ELSE t.name

\* What is rendered for one id of a list of ids: a link to the detail page
\* of the id carrying the record's label, or plain text.
Link(id, text) == [id |-> id, text |-> text, linked |-> TRUE]
PlainText(id) == [id |-> id, text |-> id, linked |-> FALSE]

RECURSIVE RelatedCardsUntilUnresolved(_, _)
RelatedCardsUntilUnresolved(ids, techniques) ==
    IF ids = <<>> \/ ~HasId(techniques, Head(ids)) THEN <<>>
    ELSE <<Link(Head(ids), Label(FindById(techniques, Head(ids))))>>
         \o RelatedCardsUntilUnresolved(Tail(ids), techniques)
\* The loop over a list of ids on the detail pages and on the noise listing:
\* the card or link of each id that techniques.find resolves; an unresolved
\* id adds nothing (continue; return null and filter(Boolean)).
RECURSIVE RelatedCards(_, _)
RelatedCards(ids, techniques) ==
    IF ids = <<>> THEN <<>>
    ELSE (IF HasId(techniques, Head(ids))
          THEN <<Link(Head(ids), Label(FindById(techniques, Head(ids))))>>
          ELSE <<>>)
         \o RelatedCards(Tail(ids), techniques)

\* techLinks of a card of the applications listing: an id that does not
\* resolve is rendered as a span holding the id itself.
TechLinks(ids, techniques) ==
    [i \in 1..Len(ids) |->
        IF HasId(techniques, ids[i])
        THEN Link(ids[i], Label(FindById(techniques, ids[i])))
        ELSE PlainText(ids[i])]

\* if (ids && ids.length) { heading; the cards }
RelatedSection(heading, ids, techniques) ==
    IF NonEmpty(ids)
    THEN <<Section(heading, RelatedCards(ids, techniques))>>
    ELSE <<>>

\* The loop over a record's reference keys on a detail page: one entry per
\* key that references.json holds.
RECURSIVE ReferenceItems(_)
ReferenceItems(keys) ==
    IF keys = <<>> THEN <<>>
    ELSE (IF Head(keys) \in ReferencesFile THEN <<Head(keys)>> ELSE <<>>)
         \o ReferenceItems(Tail(keys))

\* if (references && references.length) { heading; the entries }
ReferencesSection(keys) ==
    IF NonEmpty(keys)
    THEN <<Section("References", ReferenceItems(keys))>>
    ELSE <<>>

\* The Trade-offs section: advantages, then disadvantages.
TradeoffsSection(detail) ==
    LET adv == Get(detail, "advantages")
        dis == Get(detail, "disadvantages")
    IN IF NonEmpty(adv) \/ NonEmpty(dis)
       THEN <<Section("Trade-offs",
                      (IF NonEmpty(adv) THEN adv ELSE <<>>)
                      \o (IF NonEmpty(dis) THEN dis ELSE <<>>))>>
       ELSE <<>>

\* The Quantum Channel section of a noise type: the forms the document has.
ChannelForms ==
    <<"kraus_form", "kraus_operators", "time_evolution", "alternative_form">>

QuantumChannelSection(detail) ==
    IF "quantum_channel" \in DOMAIN detail
    THEN <<Section("Quantum Channel",
                   SelectSeq(ChannelForms,
                             LAMBDA f : f \in DOMAIN detail.quantum_channel))>>
    ELSE <<>>

\* The renderer of the plain technique reads tech.aliases.length,
\* Object.entries(tech.properties) and tech.references.forEach unguarded.
DetailThrows(kind, rec) ==
    /\ kind = "technique"
    /\ \/ rec.aliases = NoField
       \/ rec.properties = NoField
       \/ rec.references = NoField

\* The html string a detail renderer builds for a record, as its sections in
\* document order.
DetailSections(kind, rec, detail, techniques) ==
    LET title == <<Section("title", <<rec.name>>)>>
        aka == IF NonEmpty(rec.aliases)
               THEN <<Section("Also known as", rec.aliases)>> ELSE <<>>
        overview == <<Section("Overview", <<rec.summary>>)>>
        from(heading, field) == ListSection(heading, Get(detail, field))
        properties ==
            IF kind = "technique" \/ rec.properties # NoField
            THEN <<Section("Properties", rec.properties)>> ELSE <<>>
        detailProperties ==
            IF Get(detail, "properties") # NoField
            THEN <<Section("Properties", Get(detail, "properties"))>> ELSE <<>>
        references == ReferencesSection(rec.references)
    IN CASE kind = "technique" ->
              title \o aka \o overview \o from("Description", "description")
              \o from("Diagram", "diagrams")
              \o from("How It Works", "how_it_works")
              \o from("Key Equations", "key_equations")
              \o properties \o TradeoffsSection(detail)
              \o from("Use Cases", "use_cases")
              \o RelatedSection("Related Techniques", rec.related, techniques)
              \o references
         [] kind = "noise-scaling" ->
              title \o aka \o overview \o from("Description", "description")
              \o from("Circuit Examples", "diagrams")
              \o from("How It Works", "how_it_works")
              \o from("Key Equations", "key_equations")
              \o properties \o TradeoffsSection(detail)
              \o from("Use Cases", "use_cases")
              \o references
         [] kind = "noise" ->
              title \o aka \o overview \o from("Description", "description")
              \o <<Section("Bloch Sphere Effect", <<"figure">>)>>
              \o from("Additional Diagrams", "diagrams")
              \o QuantumChannelSection(detail)
              \o detailProperties
              \o from("Physical Examples", "physical_examples")
              \o from("Error Mitigation Considerations", "qem_considerations")
              \o RelatedSection("Applicable QEM Techniques", rec.related,
                                techniques)
              \o references
         [] kind = "extrapolation" ->
              title \o aka \o overview \o from("Description", "description")
              \o from("How It Works", "how_it_works")
              \o from("Key Equations", "key_equations")
              \o properties \o TradeoffsSection(detail)
              \o references
         [] kind = "noise-learning" ->
              title \o aka \o overview \o from("Description", "description")
              \o from("Diagram", "diagrams")
              \o from("How It Works", "how_it_works")
              \o from("Key Equations", "key_equations")
              \o properties \o TradeoffsSection(detail)
              \o from("Use Cases", "use_cases")
              \o references
         [] OTHER ->
              title \o overview \o <<Section("diagram-section", <<"image">>)>>
              \o from("Description", "description")
              \o from("Workflow", "diagrams")
              \o from("Why Error Mitigation Matters", "why_qem")
              \o RelatedSection("QEM Techniques Used", rec.related, techniques)
              \o ListSection("Key Results", Get(rec, "key_results"))
              \o from("Experimental Demonstrations", "demonstrations")
              \o from("Challenges", "challenges")
              \o references

\* The outcomes of one run of the handler of a detail page: the content
\* area and the redirect target. Several when two fetches of one
\* Promise.all fail, as either rejection may come first.
DetailOutcomes(pg, u, data) ==
    LET kind == KindOf(pg, u.type)
        shown(c) == [content |-> c, location |-> NoField]
        listingFailed == data.listingStatus # "ok"
        detailFailed == data.detailStatus # "ok"
        rec == FindById(data.listing, u.id)
        techniques == IF kind = "technique" THEN data.listing
                      ELSE data.techniques
        detail == IF detailFailed THEN EmptyObject ELSE DetailDocument
        rendered == IF DetailThrows(kind, rec)
                    THEN {shown(Failed(kind, "TypeError"))}
                    ELSE {shown(Rendered(kind,
                              DetailSections(kind, rec, detail, techniques)))}
    IN IF u.id = <<>> THEN {shown(NoId(kind))}
       ELSE IF kind = "technique" THEN
            IF listingFailed THEN {shown(Failed(kind, "Failed to fetch"))}
            ELSE IF HasId(data.listing, u.id) THEN
                 IF detailFailed
                 THEN {shown(Failed(kind, FetchReason(data.detailStatus)))}
                 ELSE rendered
            ELSE LET r == FindByAlias(data.listing, AliasQuery(u.id))
                 IN IF r.result = "throws"
                    THEN {shown(Failed(kind, "TypeError"))}
                    ELSE IF r.result = "found"
                    THEN {[content |-> NoField, location |-> r.tech.id]}
                    ELSE {shown(NotFound(kind))}
       ELSE IF DetailRequired(kind) THEN
            IF listingFailed \/ detailFailed
            THEN (IF listingFailed
                  THEN {shown(Failed(kind, "Failed to fetch"))} ELSE {})
                 \cup (IF detailFailed
                       THEN {shown(Failed(kind, FetchReason(data.detailStatus)))}
                       ELSE {})
            ELSE IF ~HasId(data.listing, u.id) THEN {shown(NotFound(kind))}
            ELSE rendered
       ELSE IF listingFailed THEN {shown(Failed(kind, "Failed to fetch"))}
            ELSE IF ~HasId(data.listing, u.id) THEN {shown(NotFound(kind))}
            ELSE rendered

\* techniques.json as the noise and application pages fetch it for their
\* cross-references: empty, or holding the record with id "y".
TechniquesFiles ==
    {<<>>, <<CHOOSE t \in DetailPool : t.id = <<121>>>>}

DetailData ==
    [listing : SeqsUpTo(DetailPool, MaxItems),
     techniques : TechniquesFiles,
     listingStatus : {"ok", "network-error"},
     detailStatus : FetchStatuses]

InitDetail ==
    /\ page \in {"technique-detail", "application-detail"}
    /\ url \in [id : RequestIds,
                type : IF page = "technique-detail" THEN RequestTypes
                       ELSE {NoField}]
    /\ fetched \in DetailData
    /\ phase = "loading"
    /\ content = NoField
    /\ location = NoField
    /\ ListingIdle
    /\ LoadIdle
    /\ PlayIdle
    /\ GraphIdle

\* The DOMContentLoaded handler of a detail page.
LoadDetail ==
    /\ phase = "loading"
    /\ page \in {"technique-detail", "application-detail"}
    /\ \E o \in DetailOutcomes(page, url, fetched) :
        /\ content' = o.content
        /\ location' = o.location
        /\ phase' = IF o.location # NoField THEN "redirected" ELSE "done"
    /\ UNCHANGED <<page, fetched, url>>
    /\ UNCHANGED listingVars
    /\ UNCHANGED playVars
    /\ UNCHANGED graphVars
    /\ UNCHANGED loadVars

\* A hexadecimal digit, and its value.
HexDigit(c) == c \in (48..57) \cup (65..70) \cup (97..102)
HexValue(c) == IF c <= 57 THEN c - 48 ELSE IF c <= 70 THEN c - 55 ELSE c - 87

\* The value of a query parameter as URLSearchParams decodes it: "+" is a
\* space, "%" with two hexadecimal digits is the byte they name (bytes of
\* the ASCII range).
RECURSIVE FormDecode(_)
FormDecode(s) ==
    IF s = <<>> THEN <<>>
    ELSE IF s[1] = 37 /\ Len(s) >= 3 /\ HexDigit(s[2]) /\ HexDigit(s[3])
    THEN <<16 * HexValue(s[2]) + HexValue(s[3])>>
         \o FormDecode(SubSeq(s, 4, Len(s)))
    ELSE <<IF s[1] = 43 THEN 32 ELSE s[1]>> \o FormDecode(Tail(s))

\* The text before the first code unit of a set.
RECURSIVE UpTo(_, _)
UpTo(s, stops) ==
    IF s = <<>> \/ s[1] \in stops THEN <<>>
    ELSE <<s[1]>> \o UpTo(Tail(s), stops)

\* params.get("id") on the page loaded from `technique.html?id=${raw}`: the
\* query ends at "#", the parameter at "&", and its value is decoded.
IdParam(raw) == FormDecode(UpTo(raw, {35, 38}))

\* The browser follows window.location.replace: technique.html?id=<id> is
\* loaded afresh, and its detail document is fetched anew.
FollowRedirect ==
    /\ phase = "redirected"
    /\ url' = [id |-> IdParam(location), type |-> NoField]
    /\ \E st \in FetchStatuses : fetched' = [fetched EXCEPT !.detailStatus = st]
    /\ content' = NoField
    /\ location' = NoField
    /\ phase' = "loading"
    /\ UNCHANGED page
    /\ UNCHANGED listingVars
    /\ UNCHANGED playVars
    /\ UNCHANGED graphVars
    /\ UNCHANGED loadVars

NextDetail == LoadDetail \/ FollowRedirect

SpecDetail == InitDetail /\ [][NextDetail]_vars

-----------------------------------------------------------------------------
(* Cross-references: the entries rendered for a list of technique ids.     *)

\* The renderers that resolve a list of ids against techniques.json: the
\* cards of the applications and noise listings, and the detail renderers
\* of the technique (related), the noise type (mitigated_by) and the
\* application (qem_techniques).
XrefRenderers ==
    {"applications", "noise", "technique-detail", "noise-detail",
     "application-detail"}

\* Ids a list can hold: "y", "w" and "n".
XrefIds == {<<121>>, <<119>>, <<110>>}

\* The entries a renderer emits for a list of ids.
XrefEntries(renderer, ids, techniques) ==
    IF renderer = "applications" THEN TechLinks(ids, techniques)
    ELSE RelatedCards(ids, techniques)

InitXref ==
    /\ page \in XrefRenderers
    /\ fetched \in [ids : SeqsUpTo(XrefIds, MaxItems),
                    techniques : SeqsUpTo(DetailPool, MaxItems)]
    /\ phase = "loading"
    /\ ListingIdle
    /\ DetailIdle
    /\ LoadIdle
    /\ PlayIdle
    /\ GraphIdle

\* The renderer builds the entries of the list.
RenderXref ==
    /\ phase = "loading"
    /\ page \in XrefRenderers
    /\ content' = XrefEntries(page, fetched.ids, fetched.techniques)
    /\ phase' = "done"
    /\ UNCHANGED <<page, fetched, url, location>>
    /\ UNCHANGED listingVars
    /\ UNCHANGED playVars
    /\ UNCHANGED graphVars
    /\ UNCHANGED loadVars

NextXref == RenderXref

SpecXref == InitXref /\ [][NextXref]_vars

-----------------------------------------------------------------------------
(* Detail pages: the citation of a diagram caption, as a function of the   *)
(* record's reference keys and the diagram's reference.                    *)

\* Reference keys of a record: "a" and "b" have a record in
\* references.json, "q" has none.
CiteKeys == {"a", "b", "q"}

\* The reference of a diagram: a key, or none.
DiagramReferences == CiteKeys \cup {NoField}

\* citationMap after keys.forEach((key, idx) => citationMap[key] = idx + 1):
\* each key holds the number of its last position.
CitationMapOf(keys) ==
    [k \in {keys[i] : i \in 1..Len(keys)} |->
        CHOOSE i \in 1..Len(keys) :
            keys[i] = k /\ \A j \in (i + 1)..Len(keys) : keys[j] # k]

\* The text between the brackets appended to a caption, NoField when the
\* caption gets no citation: diag.reference && citationMap[diag.reference].
CaptionCitation(reference, map) ==
    IF reference # NoField /\ KeyIn(reference, map)
    THEN CitationText(reference, map)
    ELSE NoField

\* The caption's citation and the items of the References list of a
\* detail page; the technique page reads tech.references.forEach and throws
\* on a record without the field, the application page reads
\* (app.references || []).
Citations(pg, rec, reference) ==
    IF "references" \notin DOMAIN rec /\ pg = "technique-detail"
    THEN [kind |-> "error", citation |-> NoField, references |-> <<>>]
    ELSE LET refs == IF "references" \in DOMAIN rec THEN rec.references
                     ELSE <<>>
         IN [kind |-> "rendered",
             citation |-> CaptionCitation(reference, CitationMapOf(refs)),
             references |-> ReferenceItems(refs)]

InitCite ==
    /\ page \in {"technique-detail", "application-detail"}
    /\ fetched \in [record : [references : SeqsUpTo(CiteKeys, MaxRefs)]
                                \cup {EmptyObject},
                    diagram : DiagramReferences]
    /\ phase = "loading"
    /\ ListingIdle
    /\ DetailIdle
    /\ LoadIdle
    /\ PlayIdle
    /\ GraphIdle

\* The handler builds the diagram caption and the References section.
RenderCitations ==
    /\ phase = "loading"
    /\ page \in {"technique-detail", "application-detail"}
    /\ content' = Citations(page, fetched.record, fetched.diagram)
    /\ phase' = "done"
    /\ UNCHANGED <<page, fetched, url, location>>
    /\ UNCHANGED listingVars
    /\ UNCHANGED playVars
    /\ UNCHANGED graphVars
    /\ UNCHANGED loadVars

NextCite == RenderCitations

SpecCite == InitCite /\ [][NextCite]_vars

-----------------------------------------------------------------------------
(* A page load by steps: the requests a handler issues, the responses, and *)
(* the continuation of the handler after each await.                       *)

\* The pages: the four listings, the noise-scaling section page, the two
\* detail pages, and the three pages of charts (visualize.js, the page with
\* the adoption chart, the page with the applicability matrix).
LoadPages ==
    {"techniques", "catalog", "noise", "applications", "noise-scaling",
     "technique-detail", "application-detail", "visualize", "charts", "matrix"}

ListingPages == {"techniques", "catalog", "noise", "applications", "noise-scaling"}

ChartPages == {"visualize", "charts", "matrix"}

\* The groups of requests of a page in the order the handler awaits them:
\* the requests of one group are passed to one Promise.all (or are a single
\* awaited fetch) and are issued in one step.
Plan(pg, type) ==
    CASE pg = "techniques" ->
           <<{"noise-scaling.json", "extrapolation.json", "references.json"}>>
      [] pg = "catalog" -> <<{"techniques.json", "references.json"}>>
      [] pg = "noise" ->
           <<{"noise.json", "references.json", "techniques.json"}>>
      [] pg = "applications" ->
           <<{"applications.json", "references.json", "techniques.json"}>>
      [] pg = "noise-scaling" -> <<{"noise-scaling.json", "references.json"}>>
      [] pg = "application-detail" ->
           <<{"applications.json", "references.json", "techniques.json",
              "detail"}>>
      [] pg = "visualize" ->
           <<{"techniques.json"},
             {"tradeoffs.json", "comparison.json", "composability.json",
              "noise-scaling.json", "references.json"}>>
      [] pg = "charts" ->
           <<{"techniques.json"},
             {"tradeoffs.json", "adoption.json", "comparison.json",
              "composability.json"}>>
      [] pg = "matrix" ->
           <<{"techniques.json"},
             {"composability.json", "noise.json", "references.json"}>>
      [] pg = "technique-detail" /\ type = "noise-scaling" ->
           <<{"noise-scaling.json", "references.json", "detail"}>>
      [] pg = "technique-detail" /\ type = "noise" ->
           <<{"noise.json", "references.json", "techniques.json", "detail"}>>
      [] pg = "technique-detail" /\ type = "extrapolation" ->
           <<{"extrapolation.json", "references.json"}, {"detail"}>>
      [] pg = "technique-detail" /\ type = "noise-learning" ->
           <<{"noise-learning.json", "references.json"}, {"detail"}>>
      [] OTHER -> <<{"techniques.json"}, {"references.json", "detail"}>>

Files(pg, type) == UNION {Plan(pg, type)[k] : k \in 1..Len(Plan(pg, type))}

\* How a request can end. The detail and adoption requests test r.ok; the
\* others pass any response to r.json(), so that a non-success status ends
\* as its body does: parsed or not.
StatusesOf(f) ==
    IF f \in {"detail", "adoption.json"} THEN FetchStatuses
    ELSE FetchStatuses \ {"http-error"}

\* The promise of a request: fulfilled, rejected, or still pending. The
\* adoption request maps a non-success status to null; the detail requests
\* throw on it.
Fulfilled(f, st) == st = "ok" \/ (f = "adoption.json" /\ st = "http-error")

Rejected(f, st) == st \in FetchStatuses /\ ~Fulfilled(f, st)

\* The awaited group has an outcome: Promise.all rejects with the first
\* rejection and is fulfilled when every member is.
GroupSettledByAny(group, reqs) ==
    \E f \in group : reqs[f] \in FetchStatuses
GroupSettled(group, reqs) ==
    \/ \E f \in group : Rejected(f, reqs[f])
    \/ \A f \in group : Fulfilled(f, reqs[f])

\* What a rejection of group k leads to: the error paragraph of a detail
\* page ("error"), the empty catch of the optional detail document
\* ("ignored"), the console warning of a chart page ("warned"), or nothing
\* at all, the await being outside any try ("unhandled").
OnRejection(pg, type, k) ==
    IF pg \in ListingPages THEN "unhandled"
    ELSE IF pg \in ChartPages THEN (IF k = 1 THEN "unhandled" ELSE "warned")
    ELSE IF KindOf(pg, type) \in {"extrapolation", "noise-learning"} /\ k = 2
    THEN "ignored"
    ELSE "error"

\* "⬤".repeat(val) + "○".repeat(5 - val) throws a RangeError on a
\* negative count.
RatingThrows(val) == val < 0 \/ 5 - val < 0

\* Ratings of the comparison data: two within the scale, one above it.
Ratings == {0, 4, 7}

\* The charts and sections a chart page draws, in the order of the calls.
ChartCalls(pg, reqs) ==
    CASE pg = "visualize" ->
           <<"noise-scaling", "tradeoff", "comparison", "composability">>
      [] pg = "charts" ->
           <<"tradeoff">>
           \o (IF reqs["adoption.json"] = "ok" THEN <<"adoption">> ELSE <<>>)
           \o <<"comparison", "composability">>
      [] OTHER -> <<"composability", "applicability">>

\* The calls run in turn inside the try block; the first one that throws
\* ends the block.
RECURSIVE DrawCharts(_, _)
DrawCharts(calls, rating) ==
    IF calls = <<>> THEN <<>>
    ELSE IF Head(calls) = "comparison" /\ RatingThrows(rating) THEN <<>>
    ELSE <<Head(calls)>> \o DrawCharts(Tail(calls), rating)

\* What the handler renders once its last group is fulfilled.
RenderPage(pg, reqs, data) ==
    IF pg \in ListingPages THEN <<"cards">>
    ELSE IF pg \in ChartPages THEN DrawCharts(ChartCalls(pg, reqs), data.rating)
    ELSE <<"record">>

\* The data of a page load: how the id of a detail page resolves (as an
\* id, as an alias, not at all), and the rating the comparison data holds.
LoadData(pg) ==
    [lookup : IF pg \in {"technique-detail", "application-detail"}
              THEN {"id", "alias", "none"} ELSE {"id"},
     rating : IF pg \in ChartPages THEN Ratings ELSE {0}]

InitLoad ==
    /\ page \in LoadPages
    /\ url \in [id : {<<120>>},
                type : IF page = "technique-detail" THEN RequestTypes
                       ELSE {NoField}]
    /\ fetched \in LoadData(page)
    /\ phase = "start"
    /\ requests = [f \in Files(page, url.type) |-> "unissued"]
    /\ awaiting = 0
    /\ content = <<>>
    /\ location = NoField
    /\ ListingIdle
    /\ PlayIdle
    /\ GraphIdle

\* The handler runs up to its first await: the first group is issued.
StartLoad ==
    /\ phase = "start"
    /\ requests' = [f \in DOMAIN requests |->
                       IF f \in Plan(page, url.type)[1] THEN "outstanding"
                       ELSE requests[f]]
    /\ awaiting' = 1
    /\ phase' = "awaiting"
    /\ UNCHANGED <<page, fetched, url, content, location>>
    /\ UNCHANGED listingVars
    /\ UNCHANGED playVars
    /\ UNCHANGED graphVars

\* The response to one outstanding request arrives.
Respond ==
    /\ phase \in {"awaiting", "done"}
    /\ \E f \in DOMAIN requests :
        /\ requests[f] = "outstanding"
        /\ \E st \in StatusesOf(f) : requests' = [requests EXCEPT ![f] = st]
    /\ UNCHANGED <<page, fetched, phase, url, content, location, awaiting>>
    /\ UNCHANGED listingVars
    /\ UNCHANGED playVars
    /\ UNCHANGED graphVars

\* The handler continues after the await of group `awaiting`: into a catch
\* block or out of the handler on a rejection, else to the lookup of the id,
\* to the next group, or to the rendering.
Resume ==
    /\ phase = "awaiting"
    /\ LET plan == Plan(page, url.type)
           group == plan[awaiting]
           rejected == \E f \in group : Rejected(f, requests[f])
           handling == OnRejection(page, url.type, awaiting)
           kind == KindOf(page, url.type)
           stop(c, loc) == /\ content' = c
                           /\ location' = loc
                           /\ phase' = "done"
                           /\ UNCHANGED <<requests, awaiting>>
       IN /\ GroupSettled(group, requests)
          /\ IF rejected /\ handling # "ignored"
             THEN stop(IF handling = "error" THEN <<"error">> ELSE <<>>, NoField)
             ELSE IF /\ page \in {"technique-detail", "application-detail"}
                     /\ awaiting = 1
                     /\ fetched.lookup # "id"
             THEN IF kind = "technique" /\ fetched.lookup = "alias"
                  THEN stop(<<>>, "technique.html")
                  ELSE stop(<<"notFound">>, NoField)
             ELSE IF awaiting < Len(plan)
             THEN /\ requests' = [f \in DOMAIN requests |->
                                     IF f \in plan[awaiting + 1]
                                     THEN "outstanding" ELSE requests[f]]
                  /\ awaiting' = awaiting + 1
                  /\ UNCHANGED <<content, location, phase>>
             ELSE stop(RenderPage(page, requests, fetched), NoField)
    /\ UNCHANGED <<page, fetched, url>>
    /\ UNCHANGED listingVars
    /\ UNCHANGED playVars
    /\ UNCHANGED graphVars

NextLoad == StartLoad \/ Respond \/ Resume

SpecLoad == InitLoad /\ [][NextLoad]_vars

-----------------------------------------------------------------------------
(* The graph view: nodes, links, and the drag and click handlers.          *)

\* A record of techniques.json as the graph reads it; related holds
\* {id, reason} objects, or is absent (NoField).
GraphRecord(id, name, abbreviation, category, related) ==
    [id |-> id, name |-> name, abbreviation |-> abbreviation,
     category |-> category, related |-> related]

Related(id, reason) == [id |-> id, reason |-> reason]

\* Records for the graph: "e" and "e--e--e" list each other, "e" lists
\* "e--e--e" twice and also lists "n", the id of no record; "e--e" lists
\* itself; "c" has no related field.
GraphPool ==
    {GraphRecord(<<101>>, <<69>>, NoField, S_mitigation,
                 <<Related(<<101, 45, 45, 101, 45, 45, 101>>, "r1"),
                   Related(<<110>>, "r2"),
                   Related(<<101, 45, 45, 101, 45, 45, 101>>, "r3")>>),
     GraphRecord(<<101, 45, 45, 101>>, <<69, 101>>, <<66>>, S_suppression,
                 <<Related(<<101, 45, 45, 101>>, "r4")>>),
     GraphRecord(<<101, 45, 45, 101, 45, 45, 101>>, <<69, 101, 101>>, <<>>,
                 S_mitigation, <<Related(<<101>>, "r5")>>),
     GraphRecord(<<99>>, <<67>>, NoField, S_mitigation, NoField)}

\* techniques.map((t) => ({id, name: t.abbreviation || t.name, ...})).
NodesOf(techniques) ==
    [i \in 1..Len(techniques) |->
        LET t == techniques[i]
        IN [id |-> t.id,
            name |-> IF t.abbreviation # NoField /\ t.abbreviation # <<>>
                     THEN t.abbreviation ELSE t.name,
            fullName |-> t.name,
            category |-> t.category]]

S_dashes == <<45, 45>>

\* [a, b].sort().join("--")
LinkKey(a, b) ==
    Join(IF CodeUnitLess(b, a) THEN <<b, a>> ELSE <<a, b>>, S_dashes)

\* One pass of the inner loop: a related entry of technique t.
AddLink(st, t, rel, nodeIds) ==
    IF rel.id \notin nodeIds THEN st
    ELSE LET key == LinkKey(t.id, rel.id)
         IN IF key \in st.linkSet THEN st
            ELSE [linkSet |-> st.linkSet \cup {key},
                  links |-> Append(st.links,
                               [source |-> t.id, target |-> rel.id,
                                reason |-> rel.reason])]

RECURSIVE AddLinks(_, _, _, _)
AddLinks(st, t, rels, nodeIds) ==
    IF rels = <<>> THEN st
    ELSE AddLinks(AddLink(st, t, Head(rels), nodeIds), t, Tail(rels), nodeIds)

\* The outer loop: `if (!t.related) continue`, else the inner loop.
RECURSIVE BuildLinks(_, _, _)
BuildLinks(st, techniques, nodeIds) ==
    IF techniques = <<>> THEN st
    ELSE LET t == Head(techniques)
         IN BuildLinks(IF t.related = NoField THEN st
                       ELSE AddLinks(st, t, t.related, nodeIds),
                       Tail(techniques), nodeIds)

\* The array `links` for a technique list.
LinksOf(techniques) ==
    LET nodeIds == {techniques[i].id : i \in 1..Len(techniques)}
    IN BuildLinks([linkSet |-> {}, links |-> <<>>], techniques, nodeIds).links

S_indexHash == <<105, 110, 100, 101, 120, 46, 104, 116, 109, 108, 35>>

\* `index.html#${d.id}`
CardUrl(id) == S_indexHash \o id

DraggedKeptAtStart(flag) == flag
\* The value of `dragged` after the "start" listener.
DraggedAtStart(flag) == FALSE

InitGraph ==
    /\ page = "graph"
    /\ fetched \in SeqsUpTo(GraphPool, MaxNodes)
    /\ phase = "loading"
    /\ ListingIdle
    /\ DetailIdle
    /\ LoadIdle
    /\ PlayIdle
    /\ GraphIdle

\* The DOMContentLoaded handler of the graph page, once techniques.json
\* has arrived: nodes, links, and the listeners.
LoadGraph ==
    /\ page = "graph"
    /\ phase = "loading"
    /\ graphNodes' = NodesOf(fetched)
    /\ graphLinks' = LinksOf(fetched)
    /\ phase' = "rendered"
    /\ UNCHANGED <<page, fetched, dragged, gesture, displaced>>
    /\ UNCHANGED listingVars
    /\ UNCHANGED detailVars
    /\ UNCHANGED loadVars
    /\ UNCHANGED playVars

\* The pointer goes down on node n: the "start" listener of the drag.
DragStart ==
    /\ page = "graph"
    /\ phase = "rendered"
    /\ gesture.stage = "none"
    /\ \E n \in 1..Len(graphNodes) :
          gesture' = [node |-> n, stage |-> "down", moved |-> FALSE]
    /\ dragged' = DraggedAtStart(dragged)
    /\ UNCHANGED <<page, fetched, phase, graphNodes, graphLinks, displaced>>
    /\ UNCHANGED listingVars
    /\ UNCHANGED detailVars
    /\ UNCHANGED loadVars
    /\ UNCHANGED playVars

\* The pointer moves while down: the "drag" listener pins the node to the
\* pointer.
Drag ==
    /\ page = "graph"
    /\ gesture.stage = "down"
    /\ dragged' = TRUE
    /\ gesture' = [gesture EXCEPT !.moved = TRUE]
    /\ displaced' = displaced \cup {gesture.node}
    /\ UNCHANGED <<page, fetched, phase, graphNodes, graphLinks>>
    /\ UNCHANGED listingVars
    /\ UNCHANGED detailVars
    /\ UNCHANGED loadVars
    /\ UNCHANGED playVars

\* The pointer goes up: the "end" listener. The browser then dispatches a
\* click on the node ("released") or none ("none": the pointer left the
\* node, or the drag behaviour swallowed the click).
DragEnd ==
    /\ page = "graph"
    /\ gesture.stage = "down"
    /\ \E next \in {"released", "none"} :
          gesture' = [gesture EXCEPT !.stage = next]
    /\ UNCHANGED <<page, fetched, phase, graphNodes, graphLinks, dragged,
                   displaced>>
    /\ UNCHANGED listingVars
    /\ UNCHANGED detailVars
    /\ UNCHANGED loadVars
    /\ UNCHANGED playVars

\* The click listener of a node: the click that ends a gesture.
Click ==
    /\ page = "graph"
    /\ phase = "rendered"
    /\ gesture.stage = "released"
    /\ gesture' = [gesture EXCEPT !.stage = "none"]
    /\ IF ~dragged
       THEN /\ location' = CardUrl(graphNodes[gesture.node].id)
            /\ phase' = "navigated"
       ELSE UNCHANGED <<location, phase>>
    /\ UNCHANGED <<page, fetched, graphNodes, graphLinks, dragged, displaced,
                   url, content>>
    /\ UNCHANGED listingVars
    /\ UNCHANGED loadVars
    /\ UNCHANGED playVars

NextGraph == LoadGraph \/ DragStart \/ Drag \/ DragEnd \/ Click

SpecGraph == InitGraph /\ [][NextGraph]_vars

-----------------------------------------------------------------------------
(* The playground: technique cards and the Run handler.                    *)

Param(key, type, default, options) ==
    [key |-> key, type |-> type, default |-> default, options |-> options]

\* "1, 3, 5", "2,x", "1000", "0.01"
T_scaleFactors == <<49, 44, 32, 51, 44, 32, 53>>
T_scaleFactorsEdited == <<50, 44, 120>>
T_shots == <<49, 48, 48, 48>>
T_noise == <<48, 46, 48, 49>>

\* techniqueDefinitions: the parameters of each technique.
TechniqueDefinitions ==
    [zne |-> <<Param("scale_factors", "text", T_scaleFactors, <<>>),
               Param("extrapolation", "select", "richardson",
                     <<"richardson", "linear", "exponential">>)>>,
     ddd |-> <<Param("rule", "select", "xx", <<"xx", "xyxy", "yy">>)>>,
     rem |-> <<Param("num_calibration_shots", "number", T_shots, <<>>)>>]

\* Object.keys(techniqueDefinitions)
TechKeys == <<"zne", "ddd", "rem">>

\* The value a freshly built field holds: the option marked selected, else
\* the first option, for a select; the default for an input.
InitialValue(p) ==
    IF p.type = "select"
    THEN IF \E i \in 1..Len(p.options) : p.options[i] = p.default
         THEN p.default ELSE p.options[1]
    ELSE p.default

\* The fields the loop of renderParams appends for a technique.
ParamFields(select) ==
    LET def == TechniqueDefinitions[select]
    IN [i \in 1..Len(def) |->
           [key |-> def[i].key, value |-> InitialValue(def[i])]]

RenderParamsAppending(paramsDiv, select) == paramsDiv \o ParamFields(select)
\* renderParams: paramsDiv is emptied, then the fields are appended.
RenderParams(paramsDiv, select) == ParamFields(select)

\* The card of an add click, with the first technique selected.
NewCard(id) ==
    [id |-> id, select |-> TechKeys[1],
     params |-> RenderParams(<<>>, TechKeys[1])]

AddCardNumberedByLength(counter, list) ==
    [counter |-> counter + 1, list |-> Append(list, NewCard(Len(list) + 1))]
\* The add listener: techniqueCounter++, a card with that number appended.
AddCard(counter, list) ==
    [counter |-> counter + 1, list |-> Append(list, NewCard(counter + 1))]

\* s.split(sep) for a one-unit separator.
RECURSIVE Split(_, _)
Split(s, sep) ==
    IF \E i \in 1..Len(s) : s[i] = sep
    THEN LET i == CHOOSE k \in 1..Len(s) :
                      s[k] = sep /\ \A j \in 1..(k - 1) : s[j] # sep
         IN <<SubSeq(s, 1, i - 1)>> \o Split(SubSeq(s, i + 1, Len(s)), sep)
    ELSE <<s>>

\* The longest prefix of decimal digits.
RECURSIVE DigitsPrefix(_)
DigitsPrefix(s) ==
    IF s # <<>> /\ s[1] \in 48..57
    THEN <<s[1]>> \o DigitsPrefix(Tail(s))
    ELSE <<>>

\* The digits of a fraction without its trailing zeros.
RECURSIVE DropTrailingZeros(_)
DropTrailingZeros(d) ==
    IF d # <<>> /\ d[Len(d)] = 48
    THEN DropTrailingZeros(SubSeq(d, 1, Len(d) - 1))
    ELSE d

RECURSIVE NumberOf(_)
NumberOf(d) ==
    IF d = <<>> THEN 0 ELSE 10 * NumberOf(SubSeq(d, 1, Len(d) - 1)) + (d[Len(d)] - 48)

\* parseFloat on unsigned decimal text: <<>> for NaN, else the one number
\* that the longest numeric prefix after the leading white space denotes.
ParseFloat(s) ==
    LET t == TrimStart(s)
        whole == DigitsPrefix(t)
        rest == SubSeq(t, Len(whole) + 1, Len(t))
        fraction == IF rest # <<>> /\ rest[1] = 46
                    THEN DigitsPrefix(Tail(rest)) ELSE <<>>
    IN IF whole = <<>> /\ fraction = <<>> THEN <<>>
       ELSE <<[whole |-> NumberOf(whole),
               fraction |-> DropTrailingZeros(fraction)]>>

\* val.split(",").map((s) => parseFloat(s.trim())).filter((n) => !isNaN(n))
RECURSIVE ParseAll(_)
ParseAll(pieces) ==
    IF pieces = <<>> THEN <<>>
    ELSE ParseFloat(Trim(Head(pieces))) \o ParseAll(Tail(pieces))

ScaleFactors(val) == ParseAll(Split(val, 44))

\* The value of a field as the run listener stores it.
ParamValue(el) ==
    IF el.key = "scale_factors" THEN ScaleFactors(el.value) ELSE el.value

\* params of a card: each field's key with the value of the last field
\* that carries it.
ParamsOf(els) ==
    [k \in {els[i].key : i \in 1..Len(els)} |->
        ParamValue(els[CHOOSE i \in 1..Len(els) :
                          /\ els[i].key = k
                          /\ \A j \in (i + 1)..Len(els) : els[j].key # k])]

\* requestBody, as JSON.stringify writes it: a NaN noise level is null,
\* here the empty sequence.
RequestBody(list, circuit, noise) ==
    [circuit |-> circuit,
     techniques |-> [i \in 1..Len(list) |->
                       [name |-> list[i].select,
                        params |-> ParamsOf(list[i].params)]],
     noise_level |-> ParseFloat(noise)]

\* The circuits of circuits/manifest.json, by id.
Manifest == <<"bell", "ghz">>

\* Texts of the noise-level field.
NoiseTexts == {T_noise, <<>>}

\* Texts a user leaves in a field of a card.
FieldTexts(key) ==
    IF key = "scale_factors" THEN {T_scaleFactors, T_scaleFactorsEdited}
    ELSE {}

RunEnabled == [disabled |-> FALSE, label |-> "Run Simulation"]
RunRelabelled == [disabled |-> FALSE, label |-> "Running..."]
\* The button once the run listener has started.
RunDisabled == [disabled |-> TRUE, label |-> "Running..."]

\* How a run ends once fetch has fulfilled: resp.text() rejects; the body
\* is no JSON; it is the JSON null; an object with an error; an object
\* without the numeric fields; a full result; a full result whose chart
\* cannot be drawn.
Bodies ==
    {"rejected", "invalid", "null", "error", "partial", "result",
     "result-chart-throws"}

\* The path the listener takes after resp.text(): "invalid-json" and
\* "server-error" return inside the try, "caught" passes through the catch
\* block, "displayed" through displayResults.
PathOf(ok, body) ==
    IF body = "rejected" THEN "caught"
    ELSE IF body = "invalid" THEN "invalid-json"
    ELSE IF body = "null" THEN "caught"
    ELSE IF ~ok \/ body = "error" THEN "server-error"
    ELSE IF body = "partial" THEN "caught"
    ELSE IF body = "result-chart-throws" THEN "caught"
    ELSE "displayed"

ButtonAfterReturnOnly(path) ==
    IF path \in {"invalid-json", "server-error"} THEN RunEnabled
    ELSE RunDisabled
\* The button when the listener ends: each return re-enables it, and so do
\* the two statements after the try.
ButtonAfter(path) == RunEnabled

\* errorMsg.textContent after a path.
ErrorAfter(path, current) ==
    IF path = "displayed" THEN current ELSE path

\* The results panel after a path: displayResults shows the panel before it
\* draws the chart and writes the table.
PanelAfter(body, current) ==
    IF body = "result" THEN [display |-> "block", summary |-> "table"]
    ELSE IF body = "result-chart-throws"
    THEN [current EXCEPT !.display = "block"]
    ELSE current

\* An activation of the run listener: awaiting fetch, with the body of the
\* request on its way, or awaiting resp.text() of a response.
Request(body) == [pc |-> "fetch", body |-> body]
Response(ok) == [pc |-> "text", ok |-> ok]

Remove(list, i) == SubSeq(list, 1, i - 1) \o SubSeq(list, i + 1, Len(list))

InitPlay ==
    /\ page = "playground"
    /\ fetched = Manifest
    /\ phase = "ready"
    /\ techniqueCounter = 0
    /\ techniqueList = <<>>
    /\ circuitSelect = Manifest[1]
    /\ noiseLevel \in NoiseTexts
    /\ runBtn = RunEnabled
    /\ errorMsg = ""
    /\ resultsPanel = [display |-> "none", summary |-> ""]
    /\ runs = <<>>
    /\ ListingIdle
    /\ DetailIdle
    /\ LoadIdle
    /\ GraphIdle

PlayFrame ==
    /\ UNCHANGED <<page, fetched, phase>>
    /\ UNCHANGED listingVars
    /\ UNCHANGED detailVars
    /\ UNCHANGED loadVars
    /\ UNCHANGED graphVars

\* A click on "add technique".
AddTechnique ==
    /\ page = "playground"
    /\ techniqueCounter < MaxCards
    /\ LET added == AddCard(techniqueCounter, techniqueList)
       IN /\ techniqueCounter' = added.counter
          /\ techniqueList' = added.list
    /\ UNCHANGED <<circuitSelect, noiseLevel, runBtn, errorMsg, resultsPanel,
                   runs>>
    /\ PlayFrame

\* A click on the remove button of a card.
RemoveTechnique ==
    /\ page = "playground"
    /\ \E i \in 1..Len(techniqueList) :
          techniqueList' = Remove(techniqueList, i)
    /\ UNCHANGED <<techniqueCounter, circuitSelect, noiseLevel, runBtn,
                   errorMsg, resultsPanel, runs>>
    /\ PlayFrame

\* A change of the technique dropdown of a card: renderParams.
ChangeTechnique ==
    /\ page = "playground"
    /\ \E i \in 1..Len(techniqueList) :
          \E k \in 1..Len(TechKeys) :
             /\ TechKeys[k] # techniqueList[i].select
             /\ techniqueList' =
                   [techniqueList EXCEPT
                      ![i].select = TechKeys[k],
                      ![i].params = RenderParams(@, TechKeys[k])]
    /\ UNCHANGED <<techniqueCounter, circuitSelect, noiseLevel, runBtn,
                   errorMsg, resultsPanel, runs>>
    /\ PlayFrame

\* The user edits a field of a card, the circuit dropdown or the noise
\* level; no listener of the page stores anything.
EditField ==
    /\ page = "playground"
    /\ \/ /\ \E i \in 1..Len(techniqueList) :
               \E j \in 1..Len(techniqueList[i].params) :
                  \E v \in FieldTexts(techniqueList[i].params[j].key) :
                     techniqueList' =
                        [techniqueList EXCEPT ![i].params[j].value = v]
          /\ UNCHANGED <<circuitSelect, noiseLevel>>
       \/ /\ \E k \in 1..Len(Manifest) : circuitSelect' = Manifest[k]
          /\ UNCHANGED <<techniqueList, noiseLevel>>
       \/ /\ noiseLevel' \in NoiseTexts
          /\ UNCHANGED <<techniqueList, circuitSelect>>
    /\ UNCHANGED <<techniqueCounter, runBtn, errorMsg, resultsPanel, runs>>
    /\ PlayFrame

\* A click on Run, which a disabled button does not deliver: the listener
\* up to its first await, the fetch of /api/run.
ClickRun ==
    /\ page = "playground"
    /\ ~runBtn.disabled
    /\ errorMsg' = ""
    /\ runBtn' = RunDisabled
    /\ runs' = Append(runs,
                  Request(RequestBody(techniqueList, circuitSelect,
                                      noiseLevel)))
    /\ UNCHANGED <<techniqueCounter, techniqueList, circuitSelect, noiseLevel,
                   resultsPanel>>
    /\ PlayFrame

\* fetch settles: it rejects, and the listener ends through the catch
\* block, or it fulfils with a status, and the listener awaits the text.
FetchSettles ==
    /\ page = "playground"
    /\ \E i \in 1..Len(runs) :
          /\ runs[i].pc = "fetch"
          /\ \/ /\ runs' = Remove(runs, i)
                /\ errorMsg' = ErrorAfter("caught", errorMsg)
                /\ runBtn' = ButtonAfter("caught")
             \/ /\ \E ok \in BOOLEAN :
                      runs' = [runs EXCEPT ![i] = Response(ok)]
                /\ UNCHANGED <<errorMsg, runBtn>>
    /\ UNCHANGED <<techniqueCounter, techniqueList, circuitSelect, noiseLevel,
                   resultsPanel>>
    /\ PlayFrame

\* resp.text() settles and the listener runs to its end.
BodyRead ==
    /\ page = "playground"
    /\ \E i \in 1..Len(runs) :
          /\ runs[i].pc = "text"
          /\ \E body \in Bodies :
                LET path == PathOf(runs[i].ok, body)
                IN /\ errorMsg' = ErrorAfter(path, errorMsg)
                   /\ resultsPanel' =
                         IF runs[i].ok /\ path \in {"displayed", "caught"}
                         THEN PanelAfter(body, resultsPanel)
                         ELSE resultsPanel
                   /\ runBtn' = ButtonAfter(path)
          /\ runs' = Remove(runs, i)
    /\ UNCHANGED <<techniqueCounter, techniqueList, circuitSelect, noiseLevel>>
    /\ PlayFrame

NextPlay ==
    \/ AddTechnique
    \/ RemoveTechnique
    \/ ChangeTechnique
    \/ EditField
    \/ ClickRun
    \/ FetchSettles
    \/ BodyRead

SpecPlay == InitPlay /\ [][NextPlay]_vars

-----------------------------------------------------------------------------
(* Properties of the filter (specification Spec).                          *)

IsCard(n) == n.className = "technique"

IsHeading(n) == n.className = "letter-heading"

Shown(n) == n.display # "none"

\* q occurs in s as a contiguous run of code units.
Occurs(q, s) ==
    \E k \in 0..(Len(s) - Len(q)) : \A j \in 1..Len(q) : s[k + j] = q[j]

\* The visibility predicate of the filter contract, for one card.
Satisfies(card) ==
    LET q == Trim(ToLowerCase(searchValue))
    IN /\ activeCategory = S_all \/ card.category = activeCategory
       /\ q = <<>> \/ Occurs(q, ToLowerCase(card.text))

\* C1: after every run of the filter, a card is visible iff its category
\* matches the active category (or "all" is active) and the trimmed,
\* lower-cased query is empty or occurs in the card's lower-cased text; the
\* counter behind the no-results decision is the number of such cards.
C1_FilterInvariant ==
    filterRan =>
        /\ \A i \in 1..Len(main) :
              IsCard(main[i]) => (Shown(main[i]) <=> Satisfies(main[i]))
        /\ visible = Cardinality({i \in 1..Len(main) :
                                    IsCard(main[i]) /\ Satisfies(main[i])})

\* A run with a category and a query to trim, one card shown, one hidden.
C1_Witness ==
    /\ filterRan
    /\ activeCategory # S_all
    /\ searchValue = <<32, 98, 32, 97, 32>>
    /\ \E i, j \in 1..Len(main) :
          /\ IsCard(main[i]) /\ Shown(main[i])
          /\ IsCard(main[j]) /\ ~Shown(main[j])
          /\ main[j].category = activeCategory

\* C7: after every run of the filter, a letter heading is visible iff a card
\* of its letter group is visible, and a navigation link is disabled iff the
\* heading it targets is hidden.
C7_HeadingsAndNav ==
    filterRan =>
        /\ \A i \in 1..Len(main) :
              IsHeading(main[i]) =>
                  (Shown(main[i]) <=>
                      \E j \in 1..Len(main) :
                          /\ IsCard(main[j])
                          /\ main[j].letter = main[i].letter
                          /\ Shown(main[j]))
        /\ \A a \in 1..Len(alphaNav) :
              \E i \in 1..Len(main) :
                  /\ IsHeading(main[i])
                  /\ main[i].letter = alphaNav[a].letter
                  /\ alphaNav[a].disabled <=> ~Shown(main[i])

\* A run that hides one heading and keeps another.
C7_Witness ==
    /\ filterRan
    /\ \E a, b \in 1..Len(alphaNav) :
          /\ alphaNav[a].disabled
          /\ ~alphaNav[b].disabled
    /\ \E i, j \in 1..Len(main) :
          /\ IsHeading(main[i]) /\ ~Shown(main[i])
          /\ IsHeading(main[j]) /\ Shown(main[j])

\* C8: after every run of the filter, the no-results indicator is shown iff
\* no card is visible; a category that no loaded item has leaves no card
\* visible and the indicator shown.
C8_NoResults ==
    filterRan =>
        /\ noResults \in {"block", "none"}
        /\ noResults = "block" <=>
              ~\E i \in 1..Len(main) : IsCard(main[i]) /\ Shown(main[i])
        /\ (/\ activeCategory # S_all
            /\ \A i \in 1..Len(allTechniques) :
                   allTechniques[i].category # activeCategory)
           => /\ noResults = "block"
              /\ \A i \in 1..Len(main) : IsCard(main[i]) => ~Shown(main[i])

\* The suppression button over mitigation-only items.
C8_Witness ==
    /\ filterRan
    /\ page = "catalog"
    /\ activeCategory = S_suppression
    /\ Len(allTechniques) = 2
    /\ \A i \in 1..Len(allTechniques) : allTechniques[i].category = S_mitigation
    /\ noResults = "block"

-----------------------------------------------------------------------------
(* Properties of the load (specification SpecIndex).                       *)

\* The reference keys of an item array, in reading order.
RECURSIVE AllKeys(_)
AllKeys(items) ==
    IF items = <<>> THEN <<>>
    ELSE ReferencesOf(Head(items)) \o AllKeys(Tail(items))

FirstIndex(keys, k) ==
    CHOOSE i \in 1..Len(keys) : keys[i] = k /\ \A j \in 1..(i - 1) : keys[j] # k

\* order lists the distinct keys by first appearance, map numbers them 1..K.
IsCitationIndex(keys, order, map) ==
    LET K == Cardinality({keys[i] : i \in 1..Len(keys)})
    IN /\ Len(order) = K
       /\ {order[i] : i \in 1..Len(order)} = {keys[i] : i \in 1..Len(keys)}
       /\ \A i, j \in 1..Len(order) :
             i < j => FirstIndex(keys, order[i]) < FirstIndex(keys, order[j])
       /\ DOMAIN map = {keys[i] : i \in 1..Len(keys)}
       /\ \A i \in 1..Len(order) : map[order[i]] = i

\* C2: for any item list the citation indexer lists the distinct reference
\* keys by first appearance and numbers them 1..K, K the number of distinct
\* keys.
C2_CitationIndex ==
    phase = "rendered" =>
        IsCitationIndex(AllKeys(allTechniques), citationOrder, citationMap)

\* The scenario of C3: Zero-Noise Extrapolation with references a, b, then
\* Probabilistic Error Cancellation with references b, c.
C3_Scenario ==
    LET items == Combined(page, fetched)
    IN /\ phase = "rendered"
       /\ Len(items) = 2
       /\ items[1].name = ZNEName /\ items[1].references = <<"a", "b">>
       /\ items[2].name = PECName /\ items[2].references = <<"b", "c">>

Count(r, s) == Cardinality({i \in 1..Len(s) : s[i] = r})

\* C9: grouping is a partition of the loaded items: every item is in exactly
\* one letter group, the one keyed by the upper-cased first character of its
\* name, and the groups together hold the sorted list's items, none lost and
\* none duplicated.
C9_GroupingPartition ==
    phase = "rendered" =>
        /\ DOMAIN grouped = {letters[i] : i \in 1..Len(letters)}
        /\ \A l \in DOMAIN grouped :
              /\ grouped[l] # <<>>
              /\ \A i \in 1..Len(grouped[l]) :
                    l = <<ToUpperCaseUnit(grouped[l][i].name[1])>>
        /\ \A i \in 1..Len(allTechniques) :
              LET t == allTechniques[i]
              IN Cardinality({l \in DOMAIN grouped : Count(t, grouped[l]) > 0}) = 1
        /\ \A l \in DOMAIN grouped : \A i \in 1..Len(grouped[l]) :
              Count(grouped[l][i], grouped[l]) = Count(grouped[l][i], allTechniques)

\* Two items whose names differ in the case of the first letter share a group.
C9_Witness ==
    /\ phase = "rendered"
    /\ \E l \in DOMAIN grouped :
          /\ Len(grouped[l]) = 2
          /\ grouped[l][1].name[1] # grouped[l][2].name[1]

\* The groups concatenated in the order of letters.
RECURSIVE ConcatGroups(_, _)
ConcatGroups(ls, g) ==
    IF ls = <<>> THEN <<>> ELSE g[Head(ls)] \o ConcatGroups(Tail(ls), g)

\* C10: the letter groups concatenated in ascending key order reproduce the
\* item list sorted by display name with the locale-aware comparison.
C10_ConcatIsSorted ==
    phase = "rendered" => ConcatGroups(letters, grouped) = allTechniques

-----------------------------------------------------------------------------
(* Properties of the detail pages (specification SpecDetail).              *)

\* A string with case and the punctuation -, _ folded away.
Norm(s) == ReplacePunct(ToLowerCase(s))

\* id equals, ignoring case and punctuation, the abbreviation, an alias or
\* the name of t.
FuzzyMatches(t, id) ==
    \/ t.abbreviation # NoField /\ Norm(t.abbreviation) = Norm(id)
    \/ t.aliases # NoField
       /\ \E i \in 1..Len(t.aliases) : Norm(t.aliases[i]) = Norm(id)
    \/ Norm(t.name) = Norm(id)

\* A load of technique.html for the default kind whose listing arrived and
\* whose id is no technique's id.
UnknownTechniqueId ==
    /\ page = "technique-detail"
    /\ KindOf(page, url.type) = "technique"
    /\ phase \in {"done", "redirected"}
    /\ fetched.listingStatus = "ok"
    /\ url.id # <<>>
    /\ ~HasId(fetched.listing, url.id)

\* C4: for the default kind, an id that is no technique's id but equals,
\* ignoring case and punctuation, a technique's abbreviation, alias or name
\* is answered by a redirect to that technique's id, with nothing rendered.
\* Stated for the lists whose records all carry an aliases array, where the
\* alias search cannot throw.
C4_AliasRedirect ==
    (/\ UnknownTechniqueId
     /\ \A i \in 1..Len(fetched.listing) : fetched.listing[i].aliases # NoField
     /\ \E i \in 1..Len(fetched.listing) : FuzzyMatches(fetched.listing[i], url.id))
    => /\ phase = "redirected"
       /\ content = NoField
       /\ \E i \in 1..Len(fetched.listing) :
             /\ FuzzyMatches(fetched.listing[i], url.id)
             /\ location = fetched.listing[i].id

\* C5: for the default kind, an id that matches no technique by id,
\* abbreviation, alias or name ends with the "Technique not found" message,
\* also when records omit aliases or abbreviation.
C5_UnknownIdNotFound ==
    (/\ UnknownTechniqueId
     /\ ~\E i \in 1..Len(fetched.listing) : FuzzyMatches(fetched.listing[i], url.id))
    => /\ phase = "done"
       /\ content = NotFound("technique")

\* C6: for the other kinds, an id with no record in the kind's listing ends
\* with the kind's not-found message and the link to the parent listing,
\* also when the id has no detail document.
C6_UnknownIdNotFoundAllKinds ==
    (/\ phase = "done"
     /\ KindOf(page, url.type) # "technique"
     /\ fetched.listingStatus = "ok"
     /\ url.id # <<>>
     /\ ~HasId(fetched.listing, url.id))
    => content = NotFound(KindOf(page, url.type))

-----------------------------------------------------------------------------
(* Failures of the data files of a detail page (specification SpecDetail). *)

\* The record kind of the page load in progress.
DetailKind == KindOf(page, url.type)

\* The page load is over, its listing was read and holds the requested id.
ExistingRecordDone ==
    /\ phase = "done"
    /\ fetched.listingStatus = "ok"
    /\ HasId(fetched.listing, url.id)

FailureReasons == {"Detail file not found", "Failed to fetch", "Unexpected token"}

\* C12: when the detail document of an existing technique, noise-scaling
\* method, noise type or application fails to load (rejected request or
\* non-success status), the content area holds the error message with the
\* reason of that failure and none of the record's sections.
C12_RequiredDetailFailure ==
    (/\ ExistingRecordDone
     /\ DetailKind \in {"technique", "noise-scaling", "noise", "application"}
     /\ fetched.detailStatus \in {"http-error", "network-error"})
    => /\ content.kind = "error"
       /\ content.message = ErrorMessage(DetailKind)
       /\ content.reason \in FailureReasons
       /\ fetched.detailStatus = "http-error"
            => content.reason = "Detail file not found"
       /\ content.sections = <<>>

C12_Witness ==
    /\ ExistingRecordDone
    /\ DetailKind = "noise"
    /\ fetched.detailStatus = "http-error"
    /\ content.kind = "error"
    /\ content.reason = "Detail file not found"

\* The section of the content area with the given heading, if any.
SectionsNamed(heading) ==
    {i \in 1..Len(content.sections) : content.sections[i].heading = heading}

HasSection(heading, items) ==
    \E i \in SectionsNamed(heading) : content.sections[i].items = items

\* C13: for an extrapolation or noise-learning method that the listing
\* holds, a detail document that is missing, unreachable or unparsable
\* leaves no error message: the page shows the record's title and summary,
\* its properties when it has any, and its references that resolve.
C13_OptionalDetail ==
    (/\ ExistingRecordDone
     /\ DetailKind \in {"extrapolation", "noise-learning"}
     /\ fetched.detailStatus # "ok")
    => LET rec == FindById(fetched.listing, url.id)
       IN /\ content.kind = "rendered"
          /\ HasSection("title", <<rec.name>>)
          /\ HasSection("Overview", <<rec.summary>>)
          /\ NonEmpty(rec.properties)
               => HasSection("Properties", rec.properties)
          /\ (\E i \in 1..Len(rec.references) :
                  rec.references[i] \in ReferencesFile)
               => \E j \in SectionsNamed("References") :
                     \A k \in ReferencesFile :
                        Occurs(<<k>>, rec.references)
                            <=> Occurs(<<k>>, content.sections[j].items)
          /\ SectionsNamed("Description") = {}

C13_Witness ==
    /\ ExistingRecordDone
    /\ DetailKind = "extrapolation"
    /\ fetched.detailStatus = "parse-error"
    /\ content.kind = "rendered"
    /\ HasSection("Properties", <<<<"overhead", "high">>>>)
    /\ HasSection("References", <<"a">>)

-----------------------------------------------------------------------------
(* The dispatch on the type parameter (specification SpecDetail).          *)

\* The renderers that write what the content area holds (the three kinds
\* listed on techniques.html share their not-found text).
RendererOf(c) ==
    {k \in {"technique", "noise-scaling", "noise", "extrapolation",
            "noise-learning"} :
        \/ c.kind = "rendered" /\ c.message = k
        \/ c.kind = "notFound" /\ c = NotFound(k)
        \/ c.kind = "error" /\ c = Failed(k, c.reason)}

\* C19: on technique.html, for every id that is not empty, the handler of
\* exactly one record kind runs: the kind named by type when type is
\* noise-scaling, noise, extrapolation or noise-learning, the plain technique
\* when type is not given. The load ends in exactly one of rendered, not
\* found, error and redirect, and an id that techniques.json holds is, with
\* no type, never answered by not found or by a redirect.
C19_TypeDispatch ==
    (/\ page = "technique-detail"
     /\ phase \in {"done", "redirected"}
     /\ url.id # <<>>)
    => LET k == IF url.type = NoField THEN "technique" ELSE url.type
       IN IF location # NoField
          THEN /\ content = NoField
               /\ k = "technique"
               /\ ~HasId(fetched.listing, url.id)
          ELSE /\ content.kind \in {"rendered", "notFound", "error"}
               /\ k \in RendererOf(content)
               /\ content.kind = "rendered"
                    => RendererOf(content) = {k}
               /\ content.kind = "rendered"
                    => content.sections[1] =
                          Section("title",
                                  <<FindById(fetched.listing, url.id).name>>)
               /\ (/\ url.type = NoField
                   /\ fetched.listingStatus = "ok"
                   /\ HasId(fetched.listing, url.id))
                    => content.kind \in {"rendered", "error"}

C19_Witness ==
    /\ page = "technique-detail"
    /\ phase = "done"
    /\ url = [id |-> <<119>>, type |-> "noise"]
    /\ content.kind = "rendered"
    /\ content.message = "noise"
    /\ \E i \in 1..Len(content.sections) :
          content.sections[i].heading = "Bloch Sphere Effect"

-----------------------------------------------------------------------------
(* Optional sections of a record (specification SpecDetail).               *)

\* C14: a detail renderer whose data files all loaded renders the record
\* whichever optional fields it lacks, and every section it emits has
\* content: a section whose data is absent, empty, or holds nothing that can
\* be rendered is left out.
C14_OptionalSectionsOmitted ==
    (/\ ExistingRecordDone
     /\ \/ fetched.detailStatus = "ok"
        \/ DetailKind \in {"extrapolation", "noise-learning"})
    => /\ content.kind = "rendered"
       /\ \A i \in 1..Len(content.sections) :
             content.sections[i].items # <<>>

-----------------------------------------------------------------------------
(* Unresolved cross-references (specification SpecXref).                   *)

Resolves(id) == \E i \in 1..Len(fetched.techniques) : fetched.techniques[i].id = id

\* The ids of the list that resolve, in the order of the list.
ResolvedIds == SelectSeq(fetched.ids, Resolves)

\* C15 as stated: in every renderer an id that resolves to no loaded record
\* adds nothing to the output, and the ids that resolve are all rendered.
C15_Original ==
    phase = "done"
    => /\ Len(content) = Len(ResolvedIds)
       /\ \A i \in 1..Len(content) :
             content[i].id = ResolvedIds[i] /\ content[i].linked

\* C15 amended: no renderer stops at an id that does not resolve. The
\* detail renderers and the noise listing render nothing for it; the
\* applications listing renders the id itself as unlinked text. Every id
\* that resolves is rendered as a link, in the order of the list.
C15_Amended ==
    phase = "done"
    => IF page = "applications"
       THEN /\ Len(content) = Len(fetched.ids)
            /\ \A i \in 1..Len(content) :
                  /\ content[i].id = fetched.ids[i]
                  /\ content[i].linked <=> Resolves(fetched.ids[i])
                  /\ ~content[i].linked => content[i].text = fetched.ids[i]
       ELSE /\ Len(content) = Len(ResolvedIds)
            /\ \A i \in 1..Len(content) :
                  content[i].id = ResolvedIds[i] /\ content[i].linked

\* An unresolved id precedes a resolved one, which is still rendered.
C15_Witness ==
    /\ phase = "done"
    /\ page = "noise"
    /\ Len(fetched.ids) = 2
    /\ ~Resolves(fetched.ids[1])
    /\ Resolves(fetched.ids[2])
    /\ Len(content) = 1
    /\ content[1].id = fetched.ids[2]

-----------------------------------------------------------------------------
(* The filter as a function of its pair (specification Spec).              *)

\* The listing as the load rendered it, before any event: every node shown.
AsRendered(dom) == [i \in 1..Len(dom) |-> [dom[i] EXCEPT !.display = ""]]

\* What one run of the filter on the listing as rendered leaves, for a
\* category and a query.
FilterOf(cat, query) ==
    LET dom == FilterHeadings(FilterCards(AsRendered(main), cat, query))
    IN [main |-> dom,
        alphaNav |-> FilterNav(alphaNav, dom),
        noResults |-> NoResultsDisplay(CountVisible(main, cat, query))]

\* The part of the page the filter writes.
Filtered == [main |-> main, alphaNav |-> alphaNav, noResults |-> noResults]

HistoryFree ==
    filterRan => Filtered = FilterOf(activeCategory, QueryOf(searchValue))

\* An event that leaves the category and the query as they were.
SamePair ==
    /\ filterRan
    /\ activeCategory' = activeCategory
    /\ QueryOf(searchValue') = QueryOf(searchValue)

\* C18: once the filter has run, the displays of the cards and headings, the
\* disabled links and the no-results element are those that one run of the
\* filter on the freshly rendered listing gives for the current category
\* and query, whatever events came before; and an event that changes
\* neither the category nor the query changes none of them.
C18_FunctionOfPair ==
    /\ []HistoryFree
    /\ [][SamePair => Filtered' = Filtered /\ visible' = visible]_vars

\* Category and query both differ from their initial values, so at least
\* two events have run; one card is shown and another hidden.
C18_Witness ==
    /\ filterRan
    /\ activeCategory # S_all
    /\ QueryOf(searchValue) # <<>>
    /\ \E i, j \in 1..Len(main) :
          /\ IsCard(main[i]) /\ Shown(main[i])
          /\ IsCard(main[j]) /\ ~Shown(main[j])

-----------------------------------------------------------------------------
(* Failed requests of a page load (specification SpecLoad).                *)

\* The requests of the page without which it has nothing to render: all
\* but the adoption data and the detail document of the optional kinds.
RequiredFiles ==
    Files(page, url.type)
    \ ({"adoption.json"}
       \cup IF KindOf(page, url.type) \in {"extrapolation", "noise-learning"}
            THEN {"detail"} ELSE {})

\* C11: on every page, listing and chart pages included, once the handler
\* has ended after a required data file failed to load or to parse, the
\* content area holds the error message.
C11_RequiredFailureShown ==
    (/\ phase = "done"
     /\ \E f \in RequiredFiles : Rejected(f, requests[f]))
    => content = <<"error">>

\* Every request of the page other than f returned its data.
OthersLoaded(f) ==
    \A g \in DOMAIN requests \ {f} : requests[g] = "ok"

\* C16: when the adoption data cannot be loaded, by a non-success status or
\* by a failure of the request itself, and everything else loads, the page
\* draws the trade-off, comparison and composability charts.
C16_AdoptionOptional ==
    (/\ page = "charts"
     /\ phase = "done"
     /\ requests["adoption.json"] \in {"http-error", "network-error"}
     /\ OthersLoaded("adoption.json")
     /\ ~RatingThrows(fetched.rating))
    => content = <<"tradeoff", "comparison", "composability">>

\* The data file a chart or section is drawn from.
ChartData(chart) ==
    CASE chart = "tradeoff" -> "tradeoffs.json"
      [] chart = "adoption" -> "adoption.json"
      [] chart = "comparison" -> "comparison.json"
      [] chart = "composability" -> "composability.json"
      [] chart = "noise-scaling" -> "noise-scaling.json"
      [] OTHER -> "noise.json"

ChartsOf(pg) ==
    CASE pg = "visualize" -> {"noise-scaling", "tradeoff", "comparison", "composability"}
      [] pg = "charts" -> {"tradeoff", "adoption", "comparison", "composability"}
      [] OTHER -> {"composability", "applicability"}

\* C20: on a page of charts, a chart that cannot be drawn (a rating outside
\* 0..5, a dataset that failed to load) takes no other chart with it: every
\* chart whose own data loaded and whose drawing does not fail is drawn.
C20_FailureScoped ==
    (/\ page \in ChartPages
     /\ phase = "done"
     /\ requests["techniques.json"] = "ok"
     /\ page = "visualize" => requests["references.json"] = "ok")
    => \A c \in ChartsOf(page) :
          (/\ requests[ChartData(c)] = "ok"
           /\ ~(c = "comparison" /\ RatingThrows(fetched.rating)))
          => \E i \in 1..Len(content) : content[i] = c

-----------------------------------------------------------------------------
(* The order of requests and rendering (specification SpecLoad).           *)

Issued(f) == requests[f] # "unissued"

Completed(f) == requests[f] \in FetchStatuses

\* The content area holds cards, a record or charts, not only a message.
ContentRendered ==
    \E i \in 1..Len(content) : content[i] \notin {"error", "notFound"}

\* C17 as stated: on every page, once the handler awaits, every request of
\* the page has been issued; and content is rendered only when every
\* request has completed.
C17_Original ==
    /\ awaiting >= 1 => \A f \in DOMAIN requests : Issued(f)
    /\ ContentRendered => \A f \in DOMAIN requests : Completed(f)

\* The pages whose handler passes all its requests to a single Promise.all.
SingleGroup == Len(Plan(page, url.type)) = 1

\* A step issues requests: exactly those of the group the handler awaits
\* next, and only when every request of the groups before it has completed.
IssuesGroup ==
    LET new == {f \in DOMAIN requests : ~Issued(f) /\ requests'[f] = "outstanding"}
    IN new # {}
       => /\ new = Plan(page, url.type)[awaiting']
          /\ awaiting' = awaiting + 1
          /\ \A k \in 1..awaiting : \A f \in Plan(page, url.type)[k] :
                Completed(f)

\* C17 amended: the listing pages and the noise-scaling, noise and
\* application detail pages issue all their requests together, before the
\* first await. The technique page, the extrapolation and noise-learning
\* pages and the chart pages await a first group and issue the second,
\* together, once the first has arrived. On every page cards, record
\* sections and charts are rendered only after every request of the page
\* has been issued and has completed, each required one with success: never
\* from a subset of the responses.
C17_Amended ==
    /\ [](SingleGroup /\ awaiting >= 1 => \A f \in DOMAIN requests : Issued(f))
    /\ [](ContentRendered
            => /\ \A f \in DOMAIN requests : Completed(f)
               /\ \A f \in RequiredFiles : requests[f] = "ok")
    /\ [][IssuesGroup]_vars

\* The technique page has rendered the record after its two groups.
C17_Witness ==
    /\ page = "technique-detail"
    /\ url.type = NoField
    /\ phase = "done"
    /\ awaiting = 2
    /\ content = <<"record">>
    /\ \A f \in DOMAIN requests : requests[f] = "ok"

-----------------------------------------------------------------------------
(* What the filter events leave alone (specification Spec).                *)

\* The letters of the navigation links, in document order.
NavLetters(nav) == [i \in 1..Len(nav) |-> nav[i].letter]

\* The rendered listing with its visibility flags put aside: the nodes of
\* the container in order, the navigation letters, the references list, and
\* the arrays and maps the load built.
Rendering ==
    [nodes |-> AsRendered(main),
     nav |-> NavLetters(alphaNav),
     references |-> refList,
     items |-> allTechniques,
     order |-> citationOrder,
     map |-> citationMap,
     groups |-> grouped,
     letters |-> letters]

\* C21: after the initial render, a search-input or category-click event
\* leaves the cards and their order, the citation map, the references list
\* and the letter grouping as they were; it changes visibility flags only.
C21_FilterFrame == [][phase = "rendered" => Rendering' = Rendering]_vars

\* Events of both kinds have run on a listing of two cards and a references
\* list: one card is hidden, and a button other than "all" is marked.
C21_Witness ==
    /\ filterRan
    /\ activeBtn # {S_all}
    /\ searchValue # <<>>
    /\ refList # <<>>
    /\ \E i, j \in 1..Len(main) :
          /\ IsCard(main[i]) /\ Shown(main[i])
          /\ IsCard(main[j]) /\ ~Shown(main[j])

-----------------------------------------------------------------------------
(* Citation links of a listing (specification SpecIndex).                  *)

\* The link points to an item of the references list, and the item carries
\* the number the link shows.
Resolved(link) ==
    \E k \in 1..Len(refList) :
        /\ refList[k].key = link.href
        /\ Decimal(refList[k].value) = link.text

\* C26: on a rendered listing every citation link of every card points to
\* an item of the references list that carries the number of the link.
C26_CitationLinksResolve ==
    phase = "rendered" =>
        \A i \in 1..Len(main) :
            IsCard(main[i]) =>
                \A j \in 1..Len(main[i].links) : Resolved(main[i].links[j])

-----------------------------------------------------------------------------
(* The alias redirect (specification SpecDetail).                          *)

\* C25: the page a redirect loads finds its id among the ids of the
\* techniques, so it renders or reports an error and redirects no further.
C25_RedirectOnce ==
    [][phase = "redirected" => HasId(fetched'.listing, url'.id)]_vars

-----------------------------------------------------------------------------
(* The citation of a diagram caption (specification SpecCite).             *)

\* C27: the number a diagram caption cites is the position of the cited
\* reference in the rendered References list.
C27_CaptionCitesPosition ==
    (phase = "done" /\ content.citation # NoField) =>
        \E n \in 1..Len(content.references) :
            /\ content.references[n] = fetched.diagram
            /\ Decimal(n) = content.citation

-----------------------------------------------------------------------------
(* The links of the graph (specification SpecGraph).                       *)

\* The related entries of a technique list in the order the loops meet
\* them, each with the technique that lists it.
RECURSIVE RelatedEntries(_)
RelatedEntries(techniques) ==
    IF techniques = <<>> THEN <<>>
    ELSE LET t == Head(techniques)
         IN (IF t.related = NoField THEN <<>>
             ELSE [k \in 1..Len(t.related) |->
                      [source |-> t.id, target |-> t.related[k].id,
                       reason |-> t.related[k].reason]])
            \o RelatedEntries(Tail(techniques))

LoadedIds == {fetched[i].id : i \in 1..Len(fetched)}

\* The unordered pair a link or an entry joins.
PairOf(e) == {e.source, e.target}

\* C29: no two links join the same unordered pair of techniques; every
\* link joins two loaded techniques and is the first related entry met for
\* its pair, reason included; an entry that names no loaded technique gives
\* no link, and two distinct loaded techniques of which one lists the other
\* have their single link.
C29_SingleLinkPerPair ==
    phase # "loading" =>
        LET entries == RelatedEntries(fetched)
        IN /\ \A i, j \in 1..Len(graphLinks) :
                 i # j => PairOf(graphLinks[i]) # PairOf(graphLinks[j])
           /\ \A i \in 1..Len(graphLinks) :
                 /\ PairOf(graphLinks[i]) \subseteq LoadedIds
                 /\ \E k \in 1..Len(entries) :
                       /\ entries[k] = graphLinks[i]
                       /\ \A m \in 1..(k - 1) :
                             PairOf(entries[m]) # PairOf(entries[k])
           /\ \A k \in 1..Len(entries) :
                 LET linked == \E i \in 1..Len(graphLinks) :
                                  PairOf(graphLinks[i]) = PairOf(entries[k])
                 IN /\ entries[k].target \notin LoadedIds => ~linked
                    /\ (/\ entries[k].target \in LoadedIds
                        /\ entries[k].target # entries[k].source) => linked

-----------------------------------------------------------------------------
(* Click or drag in the graph (specification SpecGraph).                   *)

\* The step assigns window.location.href.
Navigates == location' # location

\* C28: a step navigates only as the click that ends a gesture without
\* movement since its start, and then to the card of the clicked node; the
\* click that ends a gesture without movement always navigates, whatever
\* was dragged before.
C28_ClickOrDrag ==
    [][/\ Navigates =>
            /\ gesture.stage = "released"
            /\ ~gesture.moved
            /\ location' = CardUrl(graphNodes[gesture.node].id)
       /\ (gesture.stage = "released" /\ ~gesture.moved) => Navigates]_vars

\* A node was dragged and moved; a later click on another node, without
\* movement, has navigated to that node's card.
C28_Witness ==
    /\ phase = "navigated"
    /\ displaced # {}
    /\ gesture.node \notin displaced
    /\ location = CardUrl(graphNodes[gesture.node].id)

-----------------------------------------------------------------------------
(* The playground.                                                         *)

\* The parameter keys techniqueDefinitions gives a technique.
DefinedKeys(name) ==
    {TechniqueDefinitions[name][j].key :
        j \in 1..Len(TechniqueDefinitions[name])}

\* The request a step sends to /api/run, if it sends one.
Sends == Len(runs') > Len(runs)
Sent == runs'[Len(runs')].body

\* C22: whatever cards were added, removed and switched to another
\* technique before, the body a click on Run sends names the selected
\* circuit and the noise level and lists the cards present and no others,
\* in the order they were added, each under the technique selected in it
\* and with the parameter keys of that technique and no other key.
C22_BodyListsCards ==
    [][Sends =>
        /\ Sent.circuit = circuitSelect
        /\ Sent.noise_level = ParseFloat(noiseLevel)
        /\ Len(Sent.techniques) = Len(techniqueList)
        /\ \A i \in 1..Len(techniqueList) :
              /\ Sent.techniques[i].name = techniqueList[i].select
              /\ DOMAIN Sent.techniques[i].params
                    = DefinedKeys(techniqueList[i].select)
              /\ \A j \in (i + 1)..Len(techniqueList) :
                    techniqueList[i].id < techniqueList[j].id]_vars

\* A request is on its way whose body lists two cards, the first switched
\* away from the technique a new card selects.
C22_Witness ==
    \E r \in 1..Len(runs) :
       /\ runs[r].pc = "fetch"
       /\ Len(runs[r].body.techniques) = 2
       /\ runs[r].body.techniques[1].name # TechKeys[1]
       /\ runs[r].body.techniques[2].name = TechKeys[1]

\* C23: at no time is more than one run under way, and while one is, from
\* the click that started it until its outcome has been handled, the Run
\* button is disabled.
C23_OneRunAtATime ==
    /\ Len(runs) <= 1
    /\ runs # <<>> => runBtn.disabled

\* A run awaits the body of its response.
C23_Witness ==
    /\ Len(runs) = 1
    /\ runs[1].pc = "text"
    /\ runBtn.disabled

\* A step that ends a run: its listener has handled the outcome.
EndsRun == Len(runs') < Len(runs)

\* C24: whenever a run ends, whatever the outcome of its request (a
\* rejected fetch, a body that is no JSON, an error or a non-success
\* status, a result, a result without the numeric fields), the Run button
\* is enabled and reads "Run Simulation"; and the button is never disabled
\* without a run under way.
C24_ButtonRestored ==
    [][/\ EndsRun => runBtn' = [disabled |-> FALSE, label |-> "Run Simulation"]
       /\ runBtn'.disabled => runs' # <<>>]_vars

\* A run has ended in the catch block, and the button is enabled again.
C24_Witness ==
    /\ runs = <<>>
    /\ errorMsg = "caught"
    /\ ~runBtn.disabled

\* The numbers of the cards present.
CardNumbers(list) == {list[i].id : i \in 1..Len(list)}

\* C30: a step that adds a card gives it a number greater than the number
\* of every card created before, present or removed, and the cards present
\* carry pairwise different numbers.
C30_NumbersNeverReused ==
    [][/\ techniqueCounter' >= techniqueCounter
       /\ \A n \in CardNumbers(techniqueList) : n <= techniqueCounter
       /\ \A n \in CardNumbers(techniqueList') \ CardNumbers(techniqueList) :
             n > techniqueCounter
       /\ Cardinality(CardNumbers(techniqueList')) = Len(techniqueList')
       /\ Len(techniqueList') > Len(techniqueList) =>
             CardNumbers(techniqueList') # CardNumbers(techniqueList)]_vars

\* The one card present was added after the first card was created.
C30_Witness ==
    /\ Len(techniqueList) = 1
    /\ techniqueList[1].id > 1

====
